---- MODULE Spec2Model ----
(***************************************************************************)
(* Model of the portfolio page's data-driven rendering engine              *)
(* (PortfolioRenderer) and of the DOM state it reads and writes, and of    *)
(* the theme manager (ThemeManager) with the storage it persists to.       *)
(*                                                                         *)
(* Strings are sequences of tokens, so that concatenation, join and        *)
(* prefix tests are computed rather than assumed.  A JavaScript value      *)
(* that may be missing is either the token sequence UNDEFINED or carries   *)
(* a presence flag next to it.                                             *)
(***************************************************************************)
EXTENDS Integers, Sequences, FiniteSets, TLC

\* ------------------------------------------------------------------------
\* Bounds of the model
\* ------------------------------------------------------------------------
MaxSections == 2
MaxContacts == 1
MaxRenders == 2
MaxToggles == 3
MaxSystemChanges == 2
MaxCategories == 2
MaxInlineContacts == 2
MaxItems == 1
MaxLinks == 2
MaxClicks == 3

\* ------------------------------------------------------------------------
\* JavaScript values
\* ------------------------------------------------------------------------
UNDEFINED == <<"~undefined">>
EMPTY == <<>>

\* JS truthiness of a string value: undefined and "" are falsy.
Truthy(v) == v # UNDEFINED /\ v # EMPTY

\* String(v) as used by innerHTML / template literals on a possibly missing value.
ToText(v) == IF v = UNDEFINED THEN <<"undefined">> ELSE v

\* String.prototype.startsWith for a one-token prefix.
StartsWith(s, tok) == Len(s) > 0 /\ s[1] = tok

RECURSIVE Join(_, _)
\* Array.prototype.join(sep) over an array of strings.
Join(arr, sep) ==
    IF Len(arr) = 0 THEN EMPTY
    ELSE IF Len(arr) = 1 THEN arr[1]
    ELSE arr[1] \o sep \o Join(Tail(arr), sep)

\* The polymorphic `items` payload: its runtime kind, and the value in the
\* field that fits the kind.
ItemsUndefined == [kind |-> "undefined", str |-> EMPTY, arr |-> <<>>]
ItemsString(s) == [kind |-> "string", str |-> s, arr |-> <<>>]
ItemsArray(a) == [kind |-> "array", str |-> EMPTY, arr |-> a]
ItemsObject(entries) == [kind |-> "object", str |-> EMPTY, arr |-> entries]

\* !section.items : undefined and "" are falsy, arrays and objects truthy.
ItemsFalsy(it) == it.kind = "undefined" \/ (it.kind = "string" /\ it.str = EMPTY)

\* ------------------------------------------------------------------------
\* DOM nodes
\* ------------------------------------------------------------------------
\* An element: its tag, the properties the renderer sets, its text and its
\* children.  origin tells an element of the page skeleton from one the
\* renderer created (element identity, as far as the renderer can tell).
Node(tag, className, href, target, text, kids) ==
    [tag |-> tag, className |-> className, href |-> href, target |-> target,
     text |-> text, kids |-> kids, origin |-> "created"]

StaticNode(tag, text) ==
    [tag |-> tag, className |-> EMPTY, href |-> EMPTY, target |-> EMPTY,
     text |-> text, kids |-> <<>>, origin |-> "skeleton"]

\* An attribute that is undefined or null is not set at all.
Attr(v) == IF v = UNDEFINED THEN EMPTY ELSE v

createElement(tag, className, href, target, textContent) ==
    Node(tag, Attr(className), Attr(href), Attr(target), Attr(textContent), <<>>)

TextNode(text) == Node("#text", EMPTY, EMPTY, EMPTY, text, <<>>)

appendChild(parent, child) == [parent EXCEPT !.kids = Append(@, child)]

\* container.querySelector('h2'): the first h2 among the descendants, in
\* document order (depth first); found is FALSE if there is none.
NoNode == [found |-> FALSE, node |-> StaticNode("none", EMPTY)]

RECURSIVE FirstH2In(_)
FirstH2In(kids) ==
    IF Len(kids) = 0 THEN NoNode
    ELSE IF kids[1].tag = "h2" THEN [found |-> TRUE, node |-> kids[1]]
    ELSE LET inner == FirstH2In(kids[1].kids)
         IN  IF inner.found THEN inner ELSE FirstH2In(Tail(kids))

querySelectorH2(kids) == FirstH2In(kids)

\* A nav-menu entry <li><a class="nav-link" href=.. >text</a></li>, with the
\* 'active' class and the click-handler sets attached to the anchor, each
\* named by the initializeNavigation call (closure) that installed it.
NavLink(href, text) ==
    [href |-> href, text |-> text, active |-> FALSE, handlers |-> <<>>]

\* ------------------------------------------------------------------------
\* renderLinkedText (part_000:269-281)
\* ------------------------------------------------------------------------
\* `<a href="${url}" target="_blank">${text}</a>`
AnchorHtml(url, text) ==
    <<"<a href=\"">> \o ToText(url) \o <<"\" target=\"_blank\">">> \o ToText(text) \o <<"</a>">>

\* Does pat occur in s at position i ?
OccursAt(s, pat, i) ==
    /\ i + Len(pat) - 1 <= Len(s)
    /\ \A k \in 1..Len(pat) : s[i + k - 1] = pat[k]

\* String.prototype.indexOf: position of the first occurrence, 0 if none.
IndexOf(s, pat) ==
    IF \E i \in 1..(Len(s) + 1) : OccursAt(s, pat, i)
    THEN CHOOSE i \in 1..(Len(s) + 1) :
            /\ OccursAt(s, pat, i)
            /\ \A j \in 1..(i - 1) : ~OccursAt(s, pat, j)
    ELSE 0

RECURSIVE Substituted(_, _, _, _)
\* The replacement string with its patterns expanded: "$$" is a dollar sign,
\* "$&" the matched text, "$`" and "$'" the text before and after the match.
\* A token of the replacement is one of these patterns or plain text.
Substituted(rep, matched, before, after) ==
    IF Len(rep) = 0 THEN <<>>
    ELSE (CASE rep[1] = "$$" -> <<"$">>
            [] rep[1] = "$&" -> matched
            [] rep[1] = "$`" -> before
            [] rep[1] = "$'" -> after
            [] OTHER -> <<rep[1]>>)
         \o Substituted(Tail(rep), matched, before, after)

\* String.prototype.replace(pattern string, replacement): first occurrence only.
ReplaceFirst(s, pat, rep) ==
    LET i == IndexOf(s, pat)
    IN  IF i = 0 THEN s
        ELSE SubSeq(s, 1, i - 1)
             \o Substituted(rep, pat, SubSeq(s, 1, i - 1), SubSeq(s, i + Len(pat), Len(s)))
             \o SubSeq(s, i + Len(pat), Len(s))

RECURSIVE LinkFold(_, _)
LinkFold(result, links) ==
    IF Len(links) = 0 THEN result
    ELSE LinkFold(ReplaceFirst(result, ToText(links[1].text),
                               AnchorHtml(links[1].url, links[1].text)),
                  Tail(links))

\* Both branches of the parenthesis test do the same replacement.
renderLinkedText(text, links) == LinkFold(text, links)

\* ------------------------------------------------------------------------
\* Section renderers (part_000:150-267).  Each takes the container's
\* children and the section and gives the children afterwards, and whether
\* it threw: what was appended before a throw stays in the container.
\* ------------------------------------------------------------------------
Rendered(kids) == [kids |-> kids, threw |-> FALSE]
Thrown(kids) == [kids |-> kids, threw |-> TRUE]

\* `Tech Stack: ${tags.join(', ')}`
TechStack(tags) == <<"Tech Stack: ">> \o Join(tags, <<", ">>)

renderTextSection(kids, section) ==
    Rendered(Append(kids, Node("p", EMPTY, EMPTY, EMPTY, ToText(section.content), <<>>)))

\* Variant: `if (detail.tags)`, so an empty tag list still gets its line.
DetailLi_EmptyTagsListed(detail) ==
    Node("li", EMPTY, EMPTY, EMPTY, ToText(detail.text),
         (IF detail.link.present
          THEN << TextNode(<<" (">>),
                  Node("a", EMPTY, ToText(detail.link.url), <<"_blank">>,
                       ToText(detail.link.text), <<>>),
                  TextNode(<<")">>) >>
          ELSE <<>>)
         \o
         << createElement("br", UNDEFINED, UNDEFINED, UNDEFINED, UNDEFINED),
            createElement("em", UNDEFINED, UNDEFINED, UNDEFINED, TechStack(detail.tags)) >>)

\* The <li> of one detail (part_000:187-205).
DetailLi(detail) ==
    Node("li", EMPTY, EMPTY, EMPTY, ToText(detail.text),
         (IF detail.link.present
          THEN << TextNode(<<" (">>),
                  Node("a", EMPTY, ToText(detail.link.url), <<"_blank">>,
                       ToText(detail.link.text), <<>>),
                  TextNode(<<")">>) >>
          ELSE <<>>)
         \o
         (IF Len(detail.tags) > 0
          THEN << createElement("br", UNDEFINED, UNDEFINED, UNDEFINED, UNDEFINED),
                  createElement("em", UNDEFINED, UNDEFINED, UNDEFINED, TechStack(detail.tags)) >>
          ELSE <<>>))

\* text.includes(..) on a missing subtitle text, reached once per link.
TimelineItemThrows(item) ==
    item.subtitle.present /\ Len(item.subtitle.links) > 0 /\ item.subtitle.text = UNDEFINED

\* The <div class="job"> of one timeline item (part_000:160-209).
TimelineItemDiv(item) ==
    LET h3 == createElement("h3", UNDEFINED, UNDEFINED, UNDEFINED, item.title)
        h4 == IF Len(item.subtitle.links) > 0
              THEN Node("h4", EMPTY, EMPTY, EMPTY,
                        renderLinkedText(item.subtitle.text, item.subtitle.links), <<>>)
              ELSE Node("h4", EMPTY, EMPTY, EMPTY, Attr(item.subtitle.text), <<>>)
        date == createElement("p", <<"date">>, UNDEFINED, UNDEFINED, item.period)
        ul == Node("ul", EMPTY, EMPTY, EMPTY, EMPTY,
                   [i \in 1..Len(item.details) |-> DetailLi(item.details[i])])
    IN  Node("div", <<"job">>, EMPTY, EMPTY, EMPTY,
             <<h3>>
             \o (IF item.subtitle.present THEN <<h4>> ELSE <<>>)
             \o (IF Truthy(item.period) THEN <<date>> ELSE <<>>)
             \o (IF Len(item.details) > 0 THEN <<ul>> ELSE <<>>))

RECURSIVE TimelineFold(_, _)
TimelineFold(kids, items) ==
    IF Len(items) = 0 THEN Rendered(kids)
    ELSE IF TimelineItemThrows(items[1]) THEN Thrown(kids)
    ELSE TimelineFold(Append(kids, TimelineItemDiv(items[1])), Tail(items))

renderTimelineSection(kids, section) ==
    IF ItemsFalsy(section.items) THEN Rendered(kids)
    ELSE IF section.items.kind # "array" THEN Thrown(kids)  \* items.forEach is not a function
    ELSE TimelineFold(kids, section.items.arr)

\* Object.entries: integer-like keys first, in ascending numeric order, then
\* the other keys in insertion order.
IndexKeyValue(name) ==
    CASE name = <<"7">> -> 7
      [] name = <<"10">> -> 10
      [] name = <<"2020">> -> 2020
      [] OTHER -> -1

IsIndexKey(name) == IndexKeyValue(name) >= 0

RECURSIVE InsertByKey(_, _)
InsertByKey(sorted, e) ==
    IF Len(sorted) = 0 THEN <<e>>
    ELSE IF IndexKeyValue(e.name) < IndexKeyValue(sorted[1].name)
         THEN <<e>> \o sorted
         ELSE <<sorted[1]>> \o InsertByKey(Tail(sorted), e)

RECURSIVE SortByKey(_)
SortByKey(entries) ==
    IF Len(entries) = 0 THEN <<>>
    ELSE InsertByKey(SortByKey(Tail(entries)), entries[1])

ObjectEntries(entries) ==
    SortByKey(SelectSeq(entries, LAMBDA e : IsIndexKey(e.name)))
    \o SelectSeq(entries, LAMBDA e : ~IsIndexKey(e.name))

\* `<strong>${category}:</strong> ${items.join(', ')}`
CategoryLine(entry) ==
    Node("p", EMPTY, EMPTY, EMPTY, EMPTY,
         << Node("strong", EMPTY, EMPTY, EMPTY, entry.name \o <<":">>, <<>>),
            TextNode(<<" ">> \o Join(entry.values, <<", ">>)) >>)

renderCategoriesSection(kids, section) ==
    IF ItemsFalsy(section.items) THEN Rendered(kids)
    ELSE IF section.items.kind = "object"
         THEN LET es == ObjectEntries(section.items.arr)
              IN  Rendered(kids \o [i \in 1..Len(es) |-> CategoryLine(es[i])])
    \* the entries of a string or an array have values without join
    ELSE IF section.items.kind = "array" /\ Len(section.items.arr) = 0 THEN Rendered(kids)
    ELSE Thrown(kids)

\* The <div class="project"> of one card (part_000:227-240).
CardDiv(item) ==
    LET h3 == createElement("h3", UNDEFINED, UNDEFINED, UNDEFINED, item.title)
        body == createElement("p", UNDEFINED, UNDEFINED, UNDEFINED, item.content)
        tagP == Node("p", EMPTY, EMPTY, EMPTY, EMPTY,
                     << createElement("em", UNDEFINED, UNDEFINED, UNDEFINED, TechStack(item.tags)) >>)
    IN  Node("div", <<"project">>, EMPTY, EMPTY, EMPTY,
             <<h3, body>> \o (IF Len(item.tags) > 0 THEN <<tagP>> ELSE <<>>))

renderCardsSection(kids, section) ==
    IF ItemsFalsy(section.items) THEN Rendered(kids)
    ELSE IF section.items.kind # "array" THEN Thrown(kids)  \* items.forEach is not a function
    ELSE Rendered(kids \o [i \in 1..Len(section.items.arr) |-> CardDiv(section.items.arr[i])])

\* contact.url.startsWith(..) on a contact without url.
ContactThrows(contact) == contact.url = UNDEFINED

LinkTarget(url) == IF StartsWith(url, "http") THEN <<"_blank">> ELSE UNDEFINED

\* <p><i class=icon></i><a href=url target=..>label</a></p> (part_000:252-262)
ContactSectionP(contact) ==
    Node("p", EMPTY, EMPTY, EMPTY, EMPTY,
         << createElement("i", contact.icon, UNDEFINED, UNDEFINED, UNDEFINED),
            createElement("a", UNDEFINED, contact.url, LinkTarget(contact.url), contact.label) >>)

\* The contacts before the first one that throws.
RECURSIVE ContactPrefix(_)
ContactPrefix(contacts) ==
    IF Len(contacts) = 0 \/ ContactThrows(contacts[1]) THEN <<>>
    ELSE <<contacts[1]>> \o ContactPrefix(Tail(contacts))

AnyContactThrows(contacts) == \E i \in 1..Len(contacts) : ContactThrows(contacts[i])

\* Variant: the top-level contacts are used whatever section.items is.
ResolveContacts_AlwaysTopLevel(section, data) ==
    IF data.contacts.present THEN ItemsArray(data.contacts.list) ELSE ItemsUndefined

\* section.items === 'contacts' ? this.data.contacts : section.items
ResolveContacts(section, data) ==
    IF section.items.kind = "string" /\ section.items.str = <<"contacts">>
    THEN (IF data.contacts.present THEN ItemsArray(data.contacts.list) ELSE ItemsUndefined)
    ELSE section.items

renderContactSection(kids, section, data) ==
    LET contacts == ResolveContacts(section, data)
        div(list) == Node("div", <<"contact-links">>, EMPTY, EMPTY, EMPTY,
                          [i \in 1..Len(list) |-> ContactSectionP(list[i])])
    IN  IF ItemsFalsy(contacts) THEN Rendered(Append(kids, div(<<>>)))
        ELSE IF contacts.kind # "array" THEN Thrown(kids)  \* contacts.forEach is not a function
        \* the div is appended only after the loop
        ELSE IF AnyContactThrows(contacts.arr) THEN Thrown(kids)
        ELSE Rendered(Append(kids, div(contacts.arr)))

\* this.renderers (part_000:5-11)
RendererTypes == {"text", "timeline", "categories", "cards", "contact"}

HasRenderer(type) == type \in RendererTypes

\* renderer(container, section)
Dispatch(kids, section, data) ==
    CASE section.type = "text" -> renderTextSection(kids, section)
      [] section.type = "timeline" -> renderTimelineSection(kids, section)
      [] section.type = "categories" -> renderCategoriesSection(kids, section)
      [] section.type = "cards" -> renderCardsSection(kids, section)
      [] section.type = "contact" -> renderContactSection(kids, section, data)

\* ------------------------------------------------------------------------
\* The render pass over the document (part_000:40-148, 283-353).
\* A step takes the DOM and gives the DOM afterwards and whether it threw.
\* ------------------------------------------------------------------------
Ok(dom) == [dom |-> dom, threw |-> FALSE]
Throw(dom) == [dom |-> dom, threw |-> TRUE]

updateMeta(dom, data) ==
    IF ~data.meta.present THEN dom
    ELSE [dom EXCEPT
            !.title = IF Truthy(data.meta.title) THEN data.meta.title ELSE @,
            \* the existing tag is updated, a missing one created: same content
            !.metaDescription =
                IF Truthy(data.meta.description) THEN data.meta.description ELSE @]

\* Variant: no `&& content`, a missing or empty field blanks the element.
setElementContent_NoContentGuard(el, content) ==
    IF el.present THEN [el EXCEPT !.text = Attr(content)] ELSE el

\* setElementContent(selector, content, isHTML): el is the element the
\* selector finds, if any.
setElementContent(el, content) ==
    IF el.present /\ Truthy(content) THEN [el EXCEPT !.text = content] ELSE el

\* <a class="contact-link" href=url target=..><i class=icon></i><span>label</span></a>
HeaderContactLink(contact) ==
    [createElement("a", <<"contact-link">>, contact.url, LinkTarget(contact.url), UNDEFINED)
        EXCEPT !.kids = << createElement("i", contact.icon, UNDEFINED, UNDEFINED, UNDEFINED),
                           createElement("span", UNDEFINED, UNDEFINED, UNDEFINED, contact.label) >>]

\* <p><i class=icon></i> <a href=url target=..>label</a></p> (part_000:103-114)
ContactLinksP(contact) ==
    Node("p", EMPTY, EMPTY, EMPTY, EMPTY,
         << createElement("i", contact.icon, UNDEFINED, UNDEFINED, UNDEFINED),
            TextNode(<<" ">>),
            createElement("a", UNDEFINED, contact.url, LinkTarget(contact.url), contact.label) >>)

\* The links appended to #header-contacts, up to the first contact that throws.
HeaderContactLinks(list) ==
    [i \in 1..Len(ContactPrefix(list)) |-> HeaderContactLink(list[i])]

\* The paragraphs appended to #contact-links, up to the first contact that throws.
ContactLinksPs(list) ==
    [i \in 1..Len(ContactPrefix(list)) |-> ContactLinksP(list[i])]

\* Variant: no `innerHTML = ''`, the links are appended to what is there.
renderContacts_Appends(dom, data) ==
    IF ~data.contacts.present THEN Ok(dom)
    ELSE IF dom.headerContacts.present /\ AnyContactThrows(data.contacts.list)
    THEN Throw([dom EXCEPT !.headerContacts.kids = @ \o HeaderContactLinks(data.contacts.list)])
    ELSE IF dom.contactLinks.present /\ AnyContactThrows(data.contacts.list)
    THEN Throw([dom EXCEPT !.contactLinks.kids = @ \o ContactLinksPs(data.contacts.list)])
    ELSE Ok([dom EXCEPT
                !.headerContacts.kids =
                    IF dom.headerContacts.present
                    THEN @ \o HeaderContactLinks(data.contacts.list) ELSE @,
                !.contactLinks.kids =
                    IF dom.contactLinks.present
                    THEN @ \o ContactLinksPs(data.contacts.list) ELSE @])

\* Each mount point that exists is emptied and filled, the header strip
\* first; a throw leaves the links appended so far.
renderContacts(dom, data) ==
    IF ~data.contacts.present THEN Ok(dom)
    ELSE IF dom.headerContacts.present /\ AnyContactThrows(data.contacts.list)
    THEN Throw([dom EXCEPT !.headerContacts.kids = HeaderContactLinks(data.contacts.list)])
    ELSE IF dom.contactLinks.present /\ AnyContactThrows(data.contacts.list)
    THEN Throw([dom EXCEPT !.contactLinks.kids = ContactLinksPs(data.contacts.list)])
    ELSE Ok([dom EXCEPT
                !.headerContacts.kids =
                    IF dom.headerContacts.present
                    THEN HeaderContactLinks(data.contacts.list) ELSE @,
                !.contactLinks.kids =
                    IF dom.contactLinks.present
                    THEN ContactLinksPs(data.contacts.list) ELSE @])

renderHeader(dom, data) ==
    IF ~data.personal.present THEN Ok(dom)
    ELSE renderContacts(
            [dom EXCEPT !.name = setElementContent(@, data.personal.name),
                        !.jobTitle = setElementContent(@, data.personal.title),
                        !.summary = setElementContent(@, data.personal.summary)],
            data)

\* Variant: the heading is always created anew.
HeadingKept_AlwaysNew(kids, title) ==
    << createElement("h2", UNDEFINED, UNDEFINED, UNDEFINED, title) >>

\* The heading step of one section (part_000:129-138): the children of the
\* cleared container.
HeadingKept(kids, title) ==
    LET h2 == querySelectorH2(kids)
    IN  IF h2.found
        THEN << [h2.node EXCEPT !.text = Attr(title), !.kids = <<>>] >>
        ELSE << createElement("h2", UNDEFINED, UNDEFINED, UNDEFINED, title) >>

\* Variant: no `if (renderer)`, so a missing renderer is called and throws.
RenderInto_CallsMissingRenderer(cleared, section, data) ==
    IF HasRenderer(section.type)
    THEN Dispatch(cleared, section, data)
    ELSE Thrown(cleared)

\* this.renderers[section.type], called if there is one (part_000:141-146).
RenderInto(cleared, section, data) ==
    IF HasRenderer(section.type)
    THEN Dispatch(cleared, section, data)
    ELSE Rendered(cleared)  \* console.warn only

\* The container of section id holds what the renderer result r left in it.
Placed(dom, id, r) ==
    [dom |-> [dom EXCEPT !.sections[id].kids = r.kids, !.log = Append(@, id)],
     threw |-> r.threw]

\* Variant: no `if (!container) return`, so a section element without a
\* container makes container.querySelector throw.
renderSection_NoContainerGuard(dom, data, section) ==
    IF ~dom.sections[section.id].section THEN Ok(dom)
    ELSE IF ~dom.sections[section.id].container THEN Throw(dom)
    ELSE Placed(dom, section.id,
                RenderInto(HeadingKept(dom.sections[section.id].kids, section.title),
                           section, data))

\* Variant: the renderer is looked up first and a section without one is
\* left as it is.
renderSection_LookupBeforeClearing(dom, data, section) ==
    IF ~dom.sections[section.id].section \/ ~dom.sections[section.id].container THEN Ok(dom)
    ELSE IF ~HasRenderer(section.type) THEN Ok([dom EXCEPT !.log = Append(@, section.id)])
    ELSE Placed(dom, section.id,
                RenderInto(HeadingKept(dom.sections[section.id].kids, section.title),
                           section, data))

\* The body of the forEach callback for one section (part_000:122-147).
renderSection(dom, data, section) ==
    IF ~dom.sections[section.id].section \/ ~dom.sections[section.id].container THEN Ok(dom)
    ELSE Placed(dom, section.id,
                RenderInto(HeadingKept(dom.sections[section.id].kids, section.title),
                           section, data))

RECURSIVE SectionsFold(_, _, _)
\* forEach over the sections left, r being the result so far: a throw ends the loop.
SectionsFold(r, data, rest) ==
    IF r.threw \/ Len(rest) = 0 THEN r
    ELSE SectionsFold(renderSection(r.dom, data, rest[1]), data, Tail(rest))

renderSections(dom, data) ==
    IF ~data.sections.present THEN Ok(dom)
    ELSE SectionsFold(Ok([dom EXCEPT !.log = <<>>]), data, data.sections.list)

\* Variant: a missing config or config.navigation counts as enabled.
NavigationEnabled_DefaultOn(data) ==
    ~data.config.present \/ ~data.config.navigation.present \/ data.config.navigation.enabled

\* this.data.config?.navigation?.enabled
NavigationEnabled(data) ==
    data.config.present /\ data.config.navigation.present /\ data.config.navigation.enabled

\* Variant: no `navMenu.innerHTML = ''`, the links are appended.
generateNavigation_Appends(dom, data) ==
    IF ~NavigationEnabled(data) \/ ~data.sections.present THEN dom
    ELSE IF ~dom.navMenu.present THEN dom
    ELSE [dom EXCEPT !.navMenu.links = @ \o
            [i \in 1..Len(data.sections.list) |->
                NavLink(<<"#", data.sections.list[i].id>>, Attr(data.sections.list[i].title))]]

generateNavigation(dom, data) ==
    IF ~NavigationEnabled(data) \/ ~data.sections.present THEN dom
    ELSE IF ~dom.navMenu.present THEN dom
    ELSE [dom EXCEPT !.navMenu.links =
            [i \in 1..Len(data.sections.list) |->
                NavLink(<<"#", data.sections.list[i].id>>, Attr(data.sections.list[i].title))]]

\* Variant: colors.primary is written to both colour variables.
applyTheme_PrimaryEverywhere(dom, data) ==
    IF ~data.theme.present THEN dom
    ELSE [dom EXCEPT
            !.accentColor =
                IF data.theme.colors.present /\ Truthy(data.theme.colors.primary)
                THEN data.theme.colors.primary ELSE @,
            !.darkAccentColor =
                IF data.theme.colors.present /\ Truthy(data.theme.colors.primary)
                THEN data.theme.colors.primary ELSE @,
            !.fontFamily =
                IF data.theme.fonts.present /\ Truthy(data.theme.fonts.primary)
                THEN data.theme.fonts.primary ELSE @,
            !.containerWidth =
                IF data.theme.layout.present /\ Truthy(data.theme.layout.containerWidth)
                THEN data.theme.layout.containerWidth ELSE @]

applyTheme(dom, data) ==
    IF ~data.theme.present THEN dom
    ELSE [dom EXCEPT
            !.accentColor =
                IF data.theme.colors.present /\ Truthy(data.theme.colors.primary)
                THEN data.theme.colors.primary ELSE @,
            !.darkAccentColor =
                IF data.theme.colors.present /\ Truthy(data.theme.colors.primaryDark)
                THEN data.theme.colors.primaryDark ELSE @,
            !.fontFamily =
                IF data.theme.fonts.present /\ Truthy(data.theme.fonts.primary)
                THEN data.theme.fonts.primary ELSE @,
            !.containerWidth =
                IF data.theme.layout.present /\ Truthy(data.theme.layout.containerWidth)
                THEN data.theme.layout.containerWidth ELSE @]

\* ------------------------------------------------------------------------
\* initializeNavigation (part_000:355-561)
\* ------------------------------------------------------------------------
\* The state of one initializeNavigation call, shared by the handlers it installs.
\*   lastClickedNavId, clickTimeout, ticking   the closure's variables; the
\*       timer ids setTimeout returns are 1, 2, .., and 0 stands for null
\*   timers    the pending 3 s timers, each with the seconds left to it
\*   created   the number of timers created so far
\*   frames    the number of animation-frame callbacks requested and not yet run
\*   scrolls   the scroll events received since the last frame callback ran,
\*       counted up to 2
\*   sinceClick   the seconds since the most recent click that set the lock,
\*       counted up to ClickLockSeconds
ClickLockSeconds == 3

NewClosure ==
    [lastClickedNavId |-> "", clickTimeout |-> 0, timers |-> {}, created |-> 0,
     sinceClick |-> ClickLockSeconds, ticking |-> FALSE, frames |-> 0, scrolls |-> 0]

\* document.querySelector(`.nav-link[href="#${id}"]`): index of the first
\* such link, 0 if none.
NavLinkFor(dom, id) ==
    LET hits == {i \in 1..Len(dom.navMenu.links) : dom.navMenu.links[i].href = <<"#", id>>}
    IN  IF ~dom.navMenu.present \/ hits = {} THEN 0
        ELSE CHOOSE i \in hits : \A j \in hits : i <= j

\* Variant: no forEach that removes 'active' from the other links.
SetActive_KeepsOthers(dom, k) ==
    [dom EXCEPT !.navMenu.links[k].active = TRUE]

\* links.forEach(l => l.classList.remove('active')); link.classList.add('active')
SetActive(dom, k) ==
    [dom EXCEPT !.navMenu.links =
        [i \in 1..Len(@) |-> [@[i] EXCEPT !.active = (i = k)]]]

\* document.getElementById(id) / section[id]: the section elements of the page.
HasSectionElement(dom, id) == id \in DOMAIN dom.sections /\ dom.sections[id].section

\* updateActiveNavLink (part_000:458-501) for the closure c, with the
\* scroll position inside the section scrollAt ("" if inside none).
updateActiveNavLink(dom, c, scrollAt) ==
    IF dom.closures[c].lastClickedNavId # "" THEN dom
    ELSE IF ~HasSectionElement(dom, scrollAt) THEN dom
    ELSE LET k == NavLinkFor(dom, scrollAt)
         IN  IF k = 0 THEN dom
             ELSE [SetActive(dom, k) EXCEPT !.hash = scrollAt]

\* Handle initial URL hash on page load (part_000:527-556).
handleInitialHash(dom) ==
    LET k == NavLinkFor(dom, dom.hash)
    IN  IF dom.hash # "" /\ HasSectionElement(dom, dom.hash) /\ k # 0
        THEN [SetActive(dom, k) EXCEPT !.scrollTimers = Append(@, dom.hash)]
        ELSE dom

initializeNavigation(dom, scrollAt) ==
    LET c == Len(dom.closures) + 1
        d1 == [dom EXCEPT !.closures = Append(@, NewClosure),
                          \* both click handlers on every .nav-link found now
                          !.navMenu.links =
                              [i \in 1..Len(@) |-> [@[i] EXCEPT !.handlers = Append(@, c)]],
                          !.scrollListeners = Append(@, c)]
    IN  handleInitialHash(updateActiveNavLink(d1, c, scrollAt))

\* ------------------------------------------------------------------------
\* renderPortfolio, loadData, init (part_000:15-48)
\* ------------------------------------------------------------------------
NullData == [isNull |-> TRUE]

\* this.renderSections(), reached unless renderHeader threw.
SectionsAfter(r, data) == IF r.threw THEN r ELSE renderSections(r.dom, data)

\* this.generateNavigation(); this.initializeNavigation(), reached unless
\* renderSections threw.
NavigationAfter(r, data, scrollAt) ==
    IF r.threw THEN r
    ELSE Ok(initializeNavigation(generateNavigation(r.dom, data), scrollAt))

\* Variant: no `if (!this.data) return`, updateMeta reads this.data.meta of
\* null and the TypeError leaves renderPortfolio.
renderPortfolio_NoDataGuard(dom, data, scrollAt) ==
    IF data.isNull THEN Throw(dom)
    ELSE NavigationAfter(
            SectionsAfter(renderHeader(updateMeta(dom, data), data), data),
            data, scrollAt)

renderPortfolio(dom, data, scrollAt) ==
    IF data.isNull THEN Ok(dom)
    ELSE NavigationAfter(
            SectionsAfter(renderHeader(updateMeta(dom, data), data), data),
            data, scrollAt)

\* Variant: no `if (!response.ok) throw`, the body of an error response is used.
loadData_IgnoresStatus(response) ==
    IF response.outcome \in {"ok", "notok"}
    THEN [threw |-> FALSE, data |-> response.body]
    ELSE [threw |-> TRUE, data |-> NullData]

\* loadData: the response of fetch('./data.json') is rejected, not ok, not
\* JSON, or ok with the document as its body.
loadData(response) ==
    IF response.outcome = "ok"
    THEN [threw |-> FALSE, data |-> response.body]
    ELSE [threw |-> TRUE, data |-> NullData]

\* this.applyTheme(); this.generateNavigation(), reached unless renderPortfolio
\* threw; the catch block otherwise.
ThemeAndNavigationAfter(r, data) ==
    IF r.threw
    THEN [dom |-> r.dom, data |-> data, caught |-> TRUE, rendered |-> TRUE]
    ELSE [dom |-> generateNavigation(applyTheme(r.dom, data), data),
          data |-> data, caught |-> FALSE, rendered |-> TRUE]

\* init after the fetch has settled: everything inside the try block.
\* caught tells whether the catch block ran, rendered whether renderPortfolio
\* was called.
init(dom, response, scrollAt) ==
    IF loadData(response).threw
    THEN [dom |-> dom, data |-> loadData(response).data, caught |-> TRUE, rendered |-> FALSE]
    ELSE ThemeAndNavigationAfter(
            renderPortfolio(dom, loadData(response).data, scrollAt),
            loadData(response).data)

\* ------------------------------------------------------------------------
\* ThemeManager (script.js:9-135, part_000:573-709)
\* ------------------------------------------------------------------------
\* The record tm holds the ThemeManager object (currentTheme, the listeners
\* it installed) together with what it reads and writes in the browser:
\*   storage  how localStorage behaves: "ok", "readonly" (setItem throws),
\*            "throws" (every access throws), "missing" (no localStorage)
\*   stored   the value of the 'theme' key, NULL if the key is absent
\*   media    window.matchMedia: "ok", "nolistener" (the query has no
\*            addEventListener), "throws", "missing"
\*   matches  whether (prefers-color-scheme: dark) matches
\*   toggle   the .theme-toggle element: "icon" (with #theme-icon), "none"
\*   dataTheme, icon   the data-theme attribute and the icon's className
\*   writes   the values setItem('theme', ..) has stored, oldest first
\*   trace    the operations run so far, each with the state it started in
\*   auto     the constructor took the theme from the system or the fallback
\*   uncaught an exception left the constructor (every access that can throw
\*            sits in a try block of its own, so none does)
NULL == "~null"

\* JS truthiness of a storage value: null and '' are falsy.
TruthyItem(v) == v # NULL /\ v # ""

Browser(storage, stored, media, matches, toggle) ==
    [constructed |-> FALSE, currentTheme |-> NULL, onToggle |-> FALSE, onSystem |-> FALSE,
     storage |-> storage, stored |-> stored, media |-> media, matches |-> matches,
     toggle |-> toggle, dataTheme |-> NULL, icon |-> "fas fa-moon",
     writes |-> <<>>, trace |-> <<>>, auto |-> FALSE, uncaught |-> FALSE]

\* localStorage.getItem('theme') returns a value (it neither throws nor is missing).
Readable(tm) == tm.storage \in {"ok", "readonly"}

\* window.matchMedia('(prefers-color-scheme: dark)') returns a query.
Queryable(tm) == tm.media \in {"ok", "nolistener"}

\* The first try block of getDefaultTheme returns the stored theme.
StoredThemeUsed(tm) == Readable(tm) /\ TruthyItem(tm.stored)

getDefaultTheme(tm) ==
    IF StoredThemeUsed(tm) THEN tm.stored
    ELSE IF Queryable(tm) /\ tm.matches THEN "dark"
    ELSE "light"

\* setTheme(theme, savePreference): a setItem that throws is caught.
setTheme(tm, theme, savePreference) ==
    [tm EXCEPT !.dataTheme = theme,
               !.stored = IF savePreference /\ tm.storage = "ok" THEN theme ELSE @,
               !.writes = IF savePreference /\ tm.storage = "ok" THEN Append(@, theme) ELSE @,
               !.currentTheme = theme]

\* Variant: the icon is the moon whatever the theme.
updateThemeIcon_AlwaysMoon(tm) ==
    IF tm.toggle = "icon" THEN [tm EXCEPT !.icon = "fas fa-moon"] ELSE tm

updateThemeIcon(tm) ==
    IF tm.toggle = "icon"
    THEN [tm EXCEPT !.icon = IF tm.currentTheme = "dark" THEN "fas fa-sun" ELSE "fas fa-moon"]
    ELSE tm

\* hasStoredPreference in init: getItem('theme') !== null
hasStoredPreference(tm) == Readable(tm) /\ tm.stored # NULL

\* hasStoredTheme in handleSystemThemeChange: the truthiness of getItem('theme')
hasStoredTheme(tm) == Readable(tm) /\ TruthyItem(tm.stored)

\* ThemeManager.init
ThemeManagerInit(tm) ==
    [updateThemeIcon(setTheme(tm, tm.currentTheme, hasStoredPreference(tm)))
        EXCEPT !.onToggle = (tm.toggle # "none"),
               !.onSystem = (tm.media = "ok")]

\* new ThemeManager()
ThemeManager(tm) ==
    ThemeManagerInit([tm EXCEPT !.currentTheme = getDefaultTheme(tm), !.constructed = TRUE])

\* Variant: the theme is flipped without a second call restoring it.
toggleTheme_AlwaysDark(tm) ==
    updateThemeIcon(setTheme(tm, "dark", TRUE))

toggleTheme(tm) ==
    updateThemeIcon(setTheme(tm, IF tm.currentTheme = "light" THEN "dark" ELSE "light", TRUE))

\* Variant: no `!hasStoredTheme` test, the system always wins.
handleSystemThemeChange_IgnoresPreference(tm, e) ==
    updateThemeIcon(setTheme(tm, IF e.matches THEN "dark" ELSE "light", FALSE))

\* handleSystemThemeChange(e), e.matches being defined
handleSystemThemeChange(tm, e) ==
    IF hasStoredTheme(tm) THEN tm
    ELSE updateThemeIcon(setTheme(tm, IF e.matches THEN "dark" ELSE "light", FALSE))

\* ------------------------------------------------------------------------
\* Data Documents
\* ------------------------------------------------------------------------
SeqsUpTo(S, n) == UNION {[1..k -> S] : k \in 0..n}

Mail == [label |-> <<"Mail">>, url |-> <<"mailto:", "a@b.com">>, icon |-> <<"fa-envelope">>]
GitHub == [label |-> <<"GitHub">>, url |-> <<"http", "s://github.com/x">>, icon |-> <<"fa-github">>]
NoUrl == [label |-> <<"Phone">>, url |-> UNDEFINED, icon |-> <<"fa-phone">>]

\* The contacts the documents of Spec draw from: one well-formed, one without url.
ContactPool == {Mail, NoUrl}

Absent(list) == [present |-> FALSE, list |-> list]
Present(list) == [present |-> TRUE, list |-> list]

ContactLists ==
    {Absent(<<>>)} \cup {Present(l) : l \in SeqsUpTo(ContactPool, MaxContacts)}

Section(id, title, type, content, items) ==
    [id |-> id, title |-> title, type |-> type, content |-> content, items |-> items]

NoLink == [present |-> FALSE, url |-> UNDEFINED, text |-> UNDEFINED]
NoSubtitle == [present |-> FALSE, text |-> UNDEFINED, links |-> <<>>]

Job ==
    [title |-> <<"Engineer">>,
     subtitle |-> [present |-> TRUE, text |-> <<"FanCode", " (", "Dream11", ")">>,
                   links |-> << [text |-> <<"Dream11">>, url |-> <<"https://d11">>] >>],
     period |-> <<"2021-2024">>,
     details |-> << [text |-> <<"Built X">>, link |-> NoLink, tags |-> << <<"Go">>, <<"SQL">> >>] >>]

Study ==
    [title |-> <<"BSc">>, subtitle |-> NoSubtitle, period |-> UNDEFINED, details |-> <<>>]

TextA == Section("a", <<"About">>, "text", <<"Hello ", "<b>", "world", "</b>">>, ItemsUndefined)
TimelineB == Section("b", <<"Experience">>, "timeline", UNDEFINED, ItemsArray(<<Job, Study>>))
ContactC == Section("c", <<"Contact">>, "contact", UNDEFINED, ItemsString(<<"contacts">>))
GalleryA == Section("a", <<"Gallery">>, "gallery", UNDEFINED, ItemsArray(<<>>))
\* a cards section whose items is a string: items.forEach is not a function
BrokenB == Section("b", <<"Projects">>, "cards", UNDEFINED, ItemsString(<<"todo">>))
SkillsC ==
    Section("c", <<"Skills">>, "categories", UNDEFINED,
            ItemsObject(<< [name |-> <<"Languages">>, values |-> << <<"Go">>, <<"JS">> >>],
                           [name |-> <<"Tools">>, values |-> << <<"Git">> >>] >>))

SectionPool == {TextA, TimelineB, ContactC, GalleryA, BrokenB}

\* `id` is unique across sections.
UniqueIds(list) == \A i, j \in 1..Len(list) : list[i].id = list[j].id => i = j

SectionLists == {l \in SeqsUpTo(SectionPool, MaxSections) : UniqueIds(l)}

NoMeta == [present |-> FALSE, title |-> UNDEFINED, description |-> UNDEFINED]
SomeMeta == [present |-> TRUE, title |-> <<"Portfolio">>, description |-> <<"Resume">>]

NoPersonal == [present |-> FALSE, name |-> UNDEFINED, title |-> UNDEFINED, summary |-> UNDEFINED]
SomePersonal ==
    [present |-> TRUE, name |-> <<"Juned">>, title |-> <<"Developer">>, summary |-> UNDEFINED]

NoTheme ==
    [present |-> FALSE,
     colors |-> [present |-> FALSE, primary |-> UNDEFINED, primaryDark |-> UNDEFINED],
     fonts |-> [present |-> FALSE, primary |-> UNDEFINED],
     layout |-> [present |-> FALSE, containerWidth |-> UNDEFINED]]
SomeTheme ==
    [present |-> TRUE,
     colors |-> [present |-> TRUE, primary |-> <<"#0a0">>, primaryDark |-> UNDEFINED],
     fonts |-> [present |-> FALSE, primary |-> UNDEFINED],
     layout |-> [present |-> TRUE, containerWidth |-> <<"900px">>]]

ConfigAbsent == [present |-> FALSE, navigation |-> [present |-> FALSE, enabled |-> FALSE]]
ConfigNoNavigation == [present |-> TRUE, navigation |-> [present |-> FALSE, enabled |-> FALSE]]
ConfigNavigation(on) == [present |-> TRUE, navigation |-> [present |-> TRUE, enabled |-> on]]

Configs == {ConfigAbsent, ConfigNoNavigation, ConfigNavigation(FALSE), ConfigNavigation(TRUE)}

Document(meta, personal, contacts, theme, config, sections) ==
    [isNull |-> FALSE, meta |-> meta, personal |-> personal, contacts |-> contacts,
     theme |-> theme, config |-> config, sections |-> sections]

\* The documents data.json may hold.
Documents ==
    {Document(SomeMeta, p, c, SomeTheme, g, Present(s)) :
        p \in {NoPersonal, SomePersonal}, c \in ContactLists,
        g \in Configs, s \in SectionLists}

\* A body that a failed response may carry.
ErrorBody ==
    Document(SomeMeta, SomePersonal, Present(<<Mail>>), SomeTheme, ConfigNavigation(TRUE),
             Present(<<TextA>>))

\* ------------------------------------------------------------------------
\* Page skeletons: the static markup the script finds
\* ------------------------------------------------------------------------
Ids == {"a", "b", "c"}

Element(text) == [present |-> TRUE, text |-> text]
NoElement == [present |-> FALSE, text |-> EMPTY]

Mount(kids) == [present |-> TRUE, kids |-> kids]
NoMount == [present |-> FALSE, kids |-> <<>>]

\* <section id=..> without a .container, with one, and no such element
NoSection == [section |-> FALSE, container |-> FALSE, kids |-> <<>>]
BareSection == [section |-> TRUE, container |-> FALSE, kids |-> <<>>]
Container(kids) == [section |-> TRUE, container |-> TRUE, kids |-> kids]

StaticHeading == <<StaticNode("h2", <<"Static heading">>), StaticNode("p", <<"Static text">>)>>
NestedHeading ==
    << StaticNode("p", <<"Intro">>),
       [StaticNode("div", EMPTY) EXCEPT !.kids = <<StaticNode("h2", <<"Inner heading">>)>>],
       StaticNode("h2", <<"Second heading">>) >>

StaticNav ==
    <<NavLink(<<"#", "a">>, <<"About">>), NavLink(<<"#", "b">>, <<"Work">>),
      NavLink(<<"#", "old">>, <<"Old">>)>>

StaticContact == <<StaticNode("a", <<"static@mail">>)>>

Page(sections, nav, headerContacts, contactLinks, summary, hash) ==
    [title |-> <<"Static title">>, metaDescription |-> UNDEFINED,
     name |-> Element(<<"Static name">>), jobTitle |-> Element(<<"Static job">>),
     summary |-> summary,
     headerContacts |-> headerContacts, contactLinks |-> contactLinks,
     sections |-> sections, navMenu |-> nav,
     accentColor |-> <<"default">>, darkAccentColor |-> <<"default">>,
     fontFamily |-> <<"default">>, containerWidth |-> <<"default">>,
     hash |-> hash, closures |-> <<>>, scrollListeners |-> <<>>, scrollTimers |-> <<>>,
     log |-> <<>>]

NavMenu(links) == [present |-> TRUE, links |-> links]
NoNavMenu == [present |-> FALSE, links |-> <<>>]

\* Four page loads: the skeleton, and the section the viewport starts in.
FullPage ==
    Page([a |-> Container(StaticHeading), b |-> Container(StaticHeading),
          c |-> Container(StaticHeading)],
         NavMenu(StaticNav), Mount(StaticContact), Mount(StaticContact),
         Element(<<"Static summary">>), "")

\* no #b, no #header-contacts, no summary paragraph; opened at #a
SparsePage ==
    Page([a |-> Container(<<>>), b |-> NoSection, c |-> Container(NestedHeading)],
         NavMenu(StaticNav), NoMount, Mount(<<>>), NoElement, "a")

\* #a without .container, no .nav-menu, no #contact-links; opened at #c
NoNavPage ==
    Page([a |-> BareSection, b |-> Container(NestedHeading), c |-> Container(<<>>)],
         NoNavMenu, Mount(<<>>), NoMount, Element(<<"Static summary">>), "c")

\* an empty .nav-menu, no #c; opened at a hash that names no element
EmptyNavPage ==
    Page([a |-> Container(StaticHeading), b |-> Container(<<>>), c |-> NoSection],
         NavMenu(<<>>), Mount(StaticContact), Mount(<<>>), Element(EMPTY), "old")

Loads ==
    { [page |-> FullPage, scrollAt |-> "a"],
      [page |-> SparsePage, scrollAt |-> ""],
      [page |-> NoNavPage, scrollAt |-> "c"],
      [page |-> EmptyNavPage, scrollAt |-> "b"] }

\* ------------------------------------------------------------------------
\* State
\* ------------------------------------------------------------------------
VARIABLES
    pc,        \* "fetching": init is suspended at await fetch; "done": init has returned
    data,      \* this.data
    dom,       \* the document
    static,    \* the document as it was before the script ran
    scrollAt,  \* the section the scroll position lies in, "" if none
    caught,    \* init's catch block has run
    outcome,   \* how the fetch settled, "" while it is pending
    renders,   \* number of renderPortfolio calls made so far
    tm,        \* the ThemeManager and the browser state it works on
    menu       \* the mobile menu: the 'active' class of .navbar and of
               \* .nav-toggle, body.style.overflow, MobileNav's isOpen and
               \* the number of clicks delivered so far

vars == <<pc, data, dom, static, scrollAt, caught, outcome, renders, tm, menu>>

\* The menu of the page as it is served: closed, no MobileNav yet.
ClosedMenu ==
    [constructed |-> FALSE, isOpen |-> FALSE, navbar |-> FALSE, navToggle |-> FALSE,
     overflow |-> "", clicks |-> 0]

\* What the page looks like before new PortfolioRenderer() runs.
Unrendered(loads) ==
    /\ pc = "fetching"
    /\ data = NullData
    /\ \E load \in loads : dom = load.page /\ scrollAt = load.scrollAt
    /\ static = dom
    /\ caught = FALSE
    /\ outcome = ""
    /\ renders = 0
    /\ menu = ClosedMenu

\* new PortfolioRenderer(): data is null and init() runs up to its await.
Init ==
    /\ Unrendered(Loads)
    /\ tm = Browser("ok", NULL, "ok", FALSE, "icon")

\* The fetch settles with `response` and init runs to its end.
Settled(response, r) ==
    /\ pc = "fetching"
    /\ data' = r.data
    /\ dom' = r.dom
    /\ caught' = r.caught
    /\ renders' = IF r.rendered THEN renders + 1 ELSE renders
    /\ outcome' = response.outcome
    /\ pc' = "done"
    /\ UNCHANGED <<static, scrollAt, tm, menu>>

Settle(response) == Settled(response, init(dom, response, scrollAt))

FetchRejected == Settle([outcome |-> "rejected", body |-> ErrorBody])

FetchNotOk == Settle([outcome |-> "notok", body |-> ErrorBody])

FetchNotJson == Settle([outcome |-> "notjson", body |-> ErrorBody])

FetchOk == \E doc \in Documents : Settle([outcome |-> "ok", body |-> doc])

\* A further call of renderPortfolio() on the page as it is.
RenderAgain ==
    /\ pc = "done"
    /\ renders < MaxRenders
    /\ ~data.isNull
    /\ dom' = renderPortfolio(dom, data, scrollAt).dom
    /\ renders' = renders + 1
    /\ UNCHANGED <<pc, data, static, scrollAt, caught, outcome, tm, menu>>

Next == FetchRejected \/ FetchNotOk \/ FetchNotJson \/ FetchOk \/ RenderAgain

Spec == Init /\ [][Next]_vars

\* ------------------------------------------------------------------------
\* Page loads over documents that vary one part of the schema each
\* ------------------------------------------------------------------------
\* The fetch settles with one of `docs` as its body and init runs to its end.
LoadOneOf(docs) == \E doc \in docs : Settle([outcome |-> "ok", body |-> doc])

\* A string field of the document: missing, empty, or a value.
Field(value) == {UNDEFINED, EMPTY, value}

\* `personal` missing, or present with each field missing, empty or set.
Personals ==
    {NoPersonal} \cup
    {[present |-> TRUE, name |-> n, title |-> t, summary |-> s] :
        n \in Field(<<"Juned">>), t \in Field(<<"Developer">>),
        s \in Field(<<"Hi, ", "<em>", "there", "</em>">>)}

HeaderDocuments ==
    {Document(SomeMeta, p, Present(<<Mail>>), SomeTheme, ConfigNavigation(TRUE),
              Present(<<TextA>>)) : p \in Personals}

FetchHeaderDocument == LoadOneOf(HeaderDocuments)

NextHeader == FetchHeaderDocument

SpecHeader == Init /\ [][NextHeader]_vars

\* ------------------------------------------------------------------------
\* The theme manager in every browser it may find itself in
\* ------------------------------------------------------------------------
\* 'theme' absent, empty, a theme, or a value some other page of the origin left.
StoredValues == {NULL, "", "light", "dark", "sepia"}

Browsers ==
    {Browser(st, v, m, dark, "icon") :
        st \in {"ok", "readonly", "throws", "missing"}, v \in StoredValues,
        m \in {"ok", "nolistener", "throws", "missing"}, dark \in BOOLEAN}
    \cup {Browser("ok", v, "ok", dark, "none") : v \in StoredValues, dark \in BOOLEAN}

InitTheme ==
    /\ Unrendered({[page |-> FullPage, scrollAt |-> ""]})
    /\ tm \in Browsers

\* The operation op starts in the state tm.
Traced(tm_, op) ==
    [tm_ EXCEPT !.trace = Append(@, [op |-> op, stored |-> tm_.stored,
                                     currentTheme |-> tm_.currentTheme,
                                     dataTheme |-> tm_.dataTheme])]

Ran(op) == Cardinality({k \in 1..Len(tm.trace) : tm.trace[k].op = op})

rendererVars == <<pc, data, dom, static, scrollAt, caught, outcome, renders, menu>>

\* DOMContentLoaded: new ThemeManager()
Construct ==
    /\ ~tm.constructed
    /\ tm' = [ThemeManager(Traced(tm, "construct")) EXCEPT !.auto = ~StoredThemeUsed(tm)]
    /\ UNCHANGED rendererVars

\* A call of toggleTheme (the click listener of .theme-toggle).
ToggleTheme ==
    /\ tm.constructed
    /\ Ran("toggle") < MaxToggles
    /\ tm' = toggleTheme(Traced(tm, "toggle"))
    /\ UNCHANGED rendererVars

\* The system colour scheme changes and the 'change' listener runs.
SystemThemeChange ==
    /\ tm.constructed /\ tm.onSystem
    /\ Ran("system") < MaxSystemChanges
    /\ tm' = handleSystemThemeChange(
                [Traced(tm, "system") EXCEPT !.matches = ~tm.matches],
                [matches |-> ~tm.matches])
    /\ UNCHANGED rendererVars

NextTheme == Construct \/ ToggleTheme \/ SystemThemeChange

SpecTheme == InitTheme /\ [][NextTheme]_vars

\* `theme` missing, or present with colors, fonts and layout each missing or
\* present, and each of their fields missing, empty or set.
Themes ==
    {NoTheme} \cup
    {[present |-> TRUE, colors |-> c, fonts |-> f, layout |-> l] :
        c \in {NoTheme.colors} \cup
               {[present |-> TRUE, primary |-> p, primaryDark |-> d] :
                   p \in Field(<<"#0a0">>), d \in Field(<<"#050">>)},
        f \in {NoTheme.fonts} \cup
               {[present |-> TRUE, primary |-> p] : p \in Field(<<"Inter">>)},
        l \in {NoTheme.layout} \cup
               {[present |-> TRUE, containerWidth |-> w] : w \in Field(<<"900px">>)}}

ThemeDocuments ==
    {Document(SomeMeta, SomePersonal, Present(<<Mail>>), t, ConfigNavigation(TRUE),
              Present(<<TextA>>)) : t \in Themes}

FetchThemeDocument == LoadOneOf(ThemeDocuments)

NextApplyTheme == FetchThemeDocument

SpecApplyTheme == Init /\ [][NextApplyTheme]_vars

\* ------------------------------------------------------------------------
\* Page loads over the payloads of one section type each
\* ------------------------------------------------------------------------
\* A document with the one section `section` and the contacts `contacts`.
OneSection(section, contacts) ==
    Document(SomeMeta, SomePersonal, contacts, SomeTheme, ConfigNavigation(TRUE),
             Present(<<section>>))

\* Sequences without repetition: the keys of a JSON object are distinct.
Distinct(seq) == \A i, j \in 1..Len(seq) : seq[i] = seq[j] => i = j

\* Category names, among them names that are array indices.
CategoryNames == {<<"Languages">>, <<"Tools">>, <<"10">>, <<"7">>}

CategoryValues == {<< <<"Go">>, <<"JS">> >>, << <<"Git">> >>}

\* The mappings `items` may hold, as the entries in the order data.json
\* writes them.
CategoryMappings ==
    {m \in SeqsUpTo([name : CategoryNames, values : CategoryValues], MaxCategories) :
        Distinct([k \in 1..Len(m) |-> m[k].name])}

CategoriesDocuments ==
    {OneSection(Section("a", <<"Skills">>, "categories", UNDEFINED, ItemsObject(m)),
                Present(<<Mail>>)) : m \in CategoryMappings}

FetchCategoriesDocument == LoadOneOf(CategoriesDocuments)

\* Contact lists of up to MaxInlineContacts entries, one of them without url.
InlineContacts == SeqsUpTo({Mail, GitHub, NoUrl}, MaxInlineContacts)

\* A contact section whose items is the sentinel, an inline list, or missing.
ContactSections ==
    {ContactC, Section("c", <<"Contact">>, "contact", UNDEFINED, ItemsUndefined)}
    \cup {Section("c", <<"Contact">>, "contact", UNDEFINED, ItemsArray(l)) : l \in InlineContacts}

ContactDocuments ==
    {OneSection(sec, c) :
        sec \in ContactSections,
        c \in {Absent(<<>>)} \cup {Present(l) : l \in InlineContacts}}

FetchContactDocument == LoadOneOf(ContactDocuments)

\* Timeline items with every optional field missing or present: subtitle
\* (without and with links), period, details, and per detail link and tags.
PlainSubtitle == [present |-> TRUE, text |-> <<"FanCode">>, links |-> <<>>]

SomeLink == [present |-> TRUE, url |-> <<"https://x">>, text |-> <<"demo">>]

Details ==
    {[text |-> <<"Built X">>, link |-> l, tags |-> t] :
        l \in {NoLink, SomeLink}, t \in {<<>>, << <<"Go">>, <<"SQL">> >>}}

TimelineItems ==
    {[title |-> <<"Engineer">>, subtitle |-> st, period |-> p, details |-> ds] :
        st \in {NoSubtitle, PlainSubtitle, Job.subtitle},
        p \in Field(<<"2021-2024">>),
        ds \in {<<>>} \cup {<<d>> : d \in Details}}

Cards ==
    {[title |-> <<"Site">>, content |-> c, tags |-> t] :
        c \in {UNDEFINED, <<"A page">>}, t \in {<<>>, << <<"Go">>, <<"SQL">> >>}}

TimelineDocuments ==
    {OneSection(Section("b", <<"Experience">>, "timeline", UNDEFINED, ItemsArray(l)),
                Present(<<Mail>>)) : l \in SeqsUpTo(TimelineItems, MaxItems)}

CardsDocuments ==
    {OneSection(Section("b", <<"Projects">>, "cards", UNDEFINED, ItemsArray(l)),
                Present(<<Mail>>)) : l \in SeqsUpTo(Cards, MaxItems)}

FetchTimelineDocument == LoadOneOf(TimelineDocuments)

FetchCardsDocument == LoadOneOf(CardsDocuments)

\* Subtitles with links: a text that occurs once, twice or not at all, and a
\* url with a dollar sign followed by an ampersand in its query.
SubtitleLinks ==
    { [text |-> <<"Dream11">>, url |-> <<"https://d11">>],
      [text |-> <<"FanCode">>, url |-> <<"https://fc">>],
      [text |-> <<"Nowhere">>, url |-> <<"https://n">>],
      [text |-> <<"Dream11">>, url |-> <<"https://d11/?q=", "$&">>] }

SubtitleTexts ==
    { <<"FanCode", " (", "Dream11", ")">>, <<"Dream11", " and ", "Dream11">> }

LinkedSubtitles ==
    {[present |-> TRUE, text |-> t, links |-> l] :
        t \in SubtitleTexts, l \in SeqsUpTo(SubtitleLinks, MaxLinks)}

LinkedTextDocuments ==
    {OneSection(
        Section("b", <<"Experience">>, "timeline", UNDEFINED,
                ItemsArray(<<[title |-> <<"Engineer">>, subtitle |-> st,
                              period |-> UNDEFINED, details |-> <<>>]>>)),
        Present(<<Mail>>)) : st \in LinkedSubtitles}

FetchLinkedTextDocument == LoadOneOf(LinkedTextDocuments)

NextRenderers ==
    \/ FetchCategoriesDocument
    \/ FetchContactDocument
    \/ FetchTimelineDocument
    \/ FetchCardsDocument
    \/ FetchLinkedTextDocument

SpecRenderers == Init /\ [][NextRenderers]_vars

\* ------------------------------------------------------------------------
\* init statement by statement, on the browser's event loop
\* ------------------------------------------------------------------------
\* pc is the statement init will run next.  init is suspended at "fetching"
\* (await fetch) and at "parsing" (await response.json()); the statements of
\* renderPortfolio and the two that follow it in init run in one task.
PassStatements ==
    << "updateMeta", "renderHeader", "renderSections", "generateNavigation",
       "initializeNavigation", "applyTheme", "regenerateNavigation" >>

InPass(p) == \E k \in 1..Len(PassStatements) : PassStatements[k] = p

\* The statement after p.
Following(p) ==
    LET k == CHOOSE i \in 1..Len(PassStatements) : PassStatements[i] = p
    IN  IF k = Len(PassStatements) THEN "done" ELSE PassStatements[k + 1]

Statement(p, d, doc, at) ==
    CASE p = "updateMeta" -> Ok(updateMeta(d, doc))
      [] p = "renderHeader" -> renderHeader(d, doc)
      [] p = "renderSections" -> renderSections(d, doc)
      [] p = "generateNavigation" -> Ok(generateNavigation(d, doc))
      [] p = "initializeNavigation" -> Ok(initializeNavigation(d, at))
      [] p = "applyTheme" -> Ok(applyTheme(d, doc))
      [] p = "regenerateNavigation" -> Ok(generateNavigation(d, doc))

\* Variant: the task yields to the event loop between any two statements.
Suspended_BetweenStatements(p) == TRUE

\* init has no task running: it waits at an await, or it has returned.  The
\* event loop runs a handler only then.
Suspended(p) == p \in {"fetching", "parsing", "done"}

PassDocuments ==
    {Document(SomeMeta, SomePersonal, Present(<<Mail>>), SomeTheme, g, Present(l)) :
        g \in {ConfigAbsent, ConfigNavigation(TRUE)},
        l \in {<<TextA>>, <<TextA, TimelineB>>, <<TextA, BrokenB>>, <<ContactC>>}}

\* fetch() settles: a rejection or a status that is not ok ends init in its
\* catch block, otherwise loadData goes on to await response.json().
FetchSettles ==
    /\ pc = "fetching"
    /\ \E o \in {"rejected", "notok", "ok"} :
          /\ pc' = IF o = "ok" THEN "parsing" ELSE "done"
          /\ caught' = (o # "ok")
          /\ outcome' = o
    /\ UNCHANGED <<data, dom, static, scrollAt, renders, tm, menu>>

\* response.json() rejects: init ends in its catch block.
JsonRejects ==
    /\ pc = "parsing"
    /\ pc' = "done"
    /\ caught' = TRUE
    /\ outcome' = "notjson"
    /\ UNCHANGED <<data, dom, static, scrollAt, renders, tm, menu>>

\* response.json() resolves: this.data is set and init calls renderPortfolio.
JsonResolves ==
    /\ pc = "parsing"
    /\ \E doc \in PassDocuments : data' = doc
    /\ pc' = PassStatements[1]
    /\ renders' = renders + 1
    /\ UNCHANGED <<dom, static, scrollAt, caught, outcome, tm, menu>>

\* The statement at pc has run with the result r.
Stepped(r) ==
    /\ InPass(pc)
    /\ dom' = r.dom
    /\ caught' = r.threw
    /\ pc' = IF r.threw THEN "done" ELSE Following(pc)
    /\ UNCHANGED <<data, static, scrollAt, outcome, renders, tm, menu>>

PassStep == Stepped(Statement(pc, dom, data, scrollAt))

\* Variant: no `ticking` test, every scroll event requests a frame.
Scrolled_Unthrottled(c) ==
    [c EXCEPT !.frames = @ + 1,
              !.ticking = TRUE,
              !.scrolls = IF @ < 2 THEN @ + 1 ELSE @]

\* onScroll (part_000:503-518, script.js:252-260) of one closure: a frame is
\* requested unless one is pending.
Scrolled(c) ==
    [c EXCEPT !.frames = IF c.ticking THEN @ ELSE @ + 1,
              !.ticking = TRUE,
              !.scrolls = IF @ < 2 THEN @ + 1 ELSE @]

\* The scroll event reaches the onScroll of every listener.
onScroll(d) ==
    [d EXCEPT !.closures =
        [c \in 1..Len(@) |->
            IF \E k \in 1..Len(d.scrollListeners) : d.scrollListeners[k] = c
            THEN Scrolled(@[c]) ELSE @[c]]]

\* The window is scrolled into the section `at` and the scroll event is delivered.
ScrollEvent ==
    /\ Suspended(pc)
    /\ \E at \in Ids \cup {""} :
          /\ at # scrollAt
          /\ scrollAt' = at
    /\ dom' = onScroll(dom)
    /\ UNCHANGED <<pc, data, static, caught, outcome, renders, tm, menu>>

RECURSIVE FramesFold(_, _, _)
\* The requested frame callbacks run, in the order of their closures:
\* function() { updateActiveNavLink(); ticking = false; }
FramesFold(d, c, at) ==
    IF c > Len(d.closures) THEN d
    ELSE IF d.closures[c].frames > 0
         THEN FramesFold([updateActiveNavLink(d, c, at) EXCEPT
                             !.closures[c].ticking = FALSE,
                             !.closures[c].frames = 0,
                             !.closures[c].scrolls = 0],
                         c + 1, at)
         ELSE FramesFold(d, c + 1, at)

\* An animation frame: the callbacks requested since the last one run.
AnimationFrame ==
    /\ Suspended(pc)
    /\ \E c \in 1..Len(dom.closures) : dom.closures[c].frames > 0
    /\ dom' = FramesFold(dom, 1, scrollAt)
    /\ UNCHANGED <<pc, data, static, scrollAt, caught, outcome, renders, tm, menu>>

\* Variant: no `if (clickTimeout) clearTimeout(clickTimeout)`.
Clicked_NoClearTimeout(c, targetId) ==
    [c EXCEPT !.lastClickedNavId = targetId,
              !.timers = @ \cup {[id |-> c.created + 1, left |-> ClickLockSeconds]},
              !.clickTimeout = c.created + 1,
              !.created = @ + 1,
              !.sinceClick = 0]

\* lastClickedNavId = targetId; if (clickTimeout) clearTimeout(clickTimeout);
\* clickTimeout = setTimeout(.., 3000)  (part_000:411-416)
Clicked(c, targetId) ==
    [c EXCEPT !.lastClickedNavId = targetId,
              !.timers = {t \in @ : t.id # c.clickTimeout}
                            \cup {[id |-> c.created + 1, left |-> ClickLockSeconds]},
              !.clickTimeout = c.created + 1,
              !.created = @ + 1,
              !.sinceClick = 0]

RECURSIVE ClicksFold(_, _, _)
\* The smooth-scrolling click listeners on link i (part_000:386-450), one
\* per closure in hs: the link alone is active, the hash is its target, and
\* the closure's lock is set with a fresh 3 s timer.
ClicksFold(d, i, hs) ==
    IF Len(hs) = 0 THEN d
    ELSE ClicksFold(
            [SetActive(d, i) EXCEPT
                !.hash = d.navMenu.links[i].href[2],
                !.closures[hs[1]] = Clicked(@, d.navMenu.links[i].href[2])],
            i, Tail(hs))

\* The menu-closing click listener of a nav link (part_000:369-380), which
\* initializeNavigation adds to the links it finds.
LinkClicked(m, handlers) ==
    [m EXCEPT !.navToggle = IF Len(handlers) > 0 THEN FALSE ELSE @,
              !.navbar = IF Len(handlers) > 0 THEN FALSE ELSE @,
              !.clicks = @ + 1]

\* A click on a nav link: its own listeners run, then the document's click
\* listener, which sees a target inside .navbar and does nothing.
NavClick ==
    /\ Suspended(pc)
    /\ dom.navMenu.present
    /\ menu.clicks < MaxClicks
    /\ \E i \in 1..Len(dom.navMenu.links) :
          /\ dom' = ClicksFold(dom, i, dom.navMenu.links[i].handlers)
          /\ menu' = LinkClicked(menu, dom.navMenu.links[i].handlers)
    /\ UNCHANGED <<pc, data, static, scrollAt, caught, outcome, renders, tm>>

\* The click listener of .nav-toggle (part_000:1156-1165); the document's
\* click listener then sees a target inside .nav-toggle and does nothing.
ToggleClick ==
    /\ Suspended(pc)
    /\ menu.clicks < MaxClicks
    /\ menu' = [menu EXCEPT !.navToggle = ~@, !.navbar = ~@, !.clicks = @ + 1]
    /\ UNCHANGED <<pc, data, dom, static, scrollAt, caught, outcome, renders, tm>>

\* The document's click listener (part_000:1168-1184) for a click outside
\* .navbar and .nav-toggle.
OutsideClicked(m) ==
    [m EXCEPT !.navToggle = IF m.navbar THEN FALSE ELSE @,
              !.navbar = FALSE]

\* A click on the page outside .navbar and .nav-toggle.
OutsideClick ==
    /\ Suspended(pc)
    /\ menu.clicks < MaxClicks
    /\ menu' = [OutsideClicked(menu) EXCEPT !.clicks = @ + 1]
    /\ UNCHANGED <<pc, data, dom, static, scrollAt, caught, outcome, renders, tm>>

\* The 3 s timer t of a closure fires: lastClickedNavId = null
ClickTimeout ==
    /\ Suspended(pc)
    /\ \E c \in 1..Len(dom.closures) :
          \E t \in dom.closures[c].timers :
             /\ t.left = 0
             /\ dom' = [dom EXCEPT !.closures[c].lastClickedNavId = "",
                                    !.closures[c].timers = @ \ {t}]
    /\ UNCHANGED <<pc, data, static, scrollAt, caught, outcome, renders, tm, menu>>

\* A second passes; timers that are due fire before the next one does.
Tick ==
    /\ Suspended(pc)
    /\ \A c \in 1..Len(dom.closures) : \A t \in dom.closures[c].timers : t.left > 0
    /\ \E c \in 1..Len(dom.closures) : dom.closures[c].sinceClick < ClickLockSeconds
    /\ dom' = [dom EXCEPT !.closures =
                  [c \in 1..Len(@) |->
                      [@[c] EXCEPT
                          !.timers = {[t EXCEPT !.left = @ - 1] : t \in @},
                          !.sinceClick = IF @ < ClickLockSeconds THEN @ + 1 ELSE @]]]
    /\ UNCHANGED <<pc, data, static, scrollAt, caught, outcome, renders, tm, menu>>

NextPass ==
    \/ FetchSettles \/ JsonRejects \/ JsonResolves \/ PassStep
    \/ ScrollEvent \/ AnimationFrame \/ NavClick \/ ClickTimeout \/ Tick

SpecPass == Init /\ [][NextPass]_vars

\* The dynamic page with its menu: the load, and clicks on the menu button,
\* on nav links and elsewhere on the page.
NextMenu ==
    \/ FetchSettles \/ JsonRejects \/ JsonResolves \/ PassStep
    \/ ToggleClick \/ NavClick \/ OutsideClick

SpecMenu == Init /\ [][NextMenu]_vars

\* The browser runs every animation frame that has been requested.
SpecPassFair == SpecPass /\ WF_vars(AnimationFrame)

\* ------------------------------------------------------------------------
\* script.js: the static page (MobileNav 143-184, NavigationManager 187-287)
\* ------------------------------------------------------------------------
\* Variant: the menu button only toggles the two classes, as the inline
\* listener of the dynamic page does.
MobileNav_toggle_ClassesOnly(m) == [m EXCEPT !.navbar = ~@, !.navToggle = ~@]

\* MobileNav.toggle
MobileNav_toggle(m) ==
    [m EXCEPT !.isOpen = ~@, !.navbar = ~@, !.navToggle = ~@,
              !.overflow = IF ~m.isOpen THEN "hidden" ELSE ""]

\* MobileNav.close
MobileNav_close(m) ==
    [m EXCEPT !.isOpen = FALSE, !.navbar = FALSE, !.navToggle = FALSE, !.overflow = ""]

\* new NavigationManager(): initSmoothScroll puts a click listener on every
\* .nav-link of the page; initActiveHighlighting registers onScroll, calls
\* updateActiveNavLink and handles the initial hash.  Its closure has ticking
\* only, and there is no click lock: lastClickedNavId stays empty.
NavigationManager(d, at) == initializeNavigation(d, at)

\* The page before DOMContentLoaded.
InitScript ==
    /\ pc = "loading"
    /\ data = NullData
    /\ \E load \in Loads : dom = load.page /\ scrollAt = load.scrollAt
    /\ static = dom
    /\ caught = FALSE
    /\ outcome = ""
    /\ renders = 0
    /\ menu = ClosedMenu
    /\ tm = Browser("ok", NULL, "ok", FALSE, "icon")

\* DOMContentLoaded (script.js:290-304): new ThemeManager(), new MobileNav(),
\* new NavigationManager()
ScriptLoaded ==
    /\ pc = "loading"
    /\ pc' = "done"
    /\ tm' = [ThemeManager(Traced(tm, "construct")) EXCEPT !.auto = ~StoredThemeUsed(tm)]
    /\ menu' = [menu EXCEPT !.constructed = TRUE]
    /\ dom' = NavigationManager(dom, scrollAt)
    /\ UNCHANGED <<data, static, scrollAt, caught, outcome, renders>>

\* The smooth-scrolling click listener of link i (script.js:200-222).
SmoothScrolled(d, i) ==
    IF HasSectionElement(d, d.navMenu.links[i].href[2])
    THEN [SetActive(d, i) EXCEPT !.hash = d.navMenu.links[i].href[2]]
    ELSE d

\* A click on a nav link: MobileNav's listener closes the menu, the
\* NavigationManager's listener marks the link; the document's listener then
\* finds isOpen false.
ScriptNavClick ==
    /\ Suspended(pc)
    /\ dom.navMenu.present
    /\ menu.clicks < MaxClicks
    /\ \E i \in 1..Len(dom.navMenu.links) : dom' = SmoothScrolled(dom, i)
    /\ menu' = [MobileNav_close(menu) EXCEPT !.clicks = @ + 1]
    /\ UNCHANGED <<pc, data, static, scrollAt, caught, outcome, renders, tm>>

\* A click on .nav-toggle: toggle(); the document's listener then finds the
\* target inside .nav-toggle.
ScriptToggleClick ==
    /\ Suspended(pc)
    /\ menu.clicks < MaxClicks
    /\ menu' = [MobileNav_toggle(menu) EXCEPT !.clicks = @ + 1]
    /\ UNCHANGED <<pc, data, dom, static, scrollAt, caught, outcome, renders, tm>>

\* A click outside .navbar and .nav-toggle: the document's listener
\* (script.js:157-161).
ScriptOutsideClick ==
    /\ Suspended(pc)
    /\ menu.clicks < MaxClicks
    /\ menu' = [(IF menu.isOpen THEN MobileNav_close(menu) ELSE menu) EXCEPT !.clicks = @ + 1]
    /\ UNCHANGED <<pc, data, dom, static, scrollAt, caught, outcome, renders, tm>>

NextScript ==
    \/ ScriptLoaded \/ ScriptNavClick \/ ScriptToggleClick \/ ScriptOutsideClick
    \/ ScrollEvent \/ AnimationFrame

SpecScript == InitScript /\ [][NextScript]_vars

\* ------------------------------------------------------------------------
\* renderPortfolio() called while this.data is null
\* ------------------------------------------------------------------------
\* The call has returned r.
Unloaded(r) ==
    /\ Suspended(pc)
    /\ data.isNull
    /\ renders < MaxRenders
    /\ dom' = r.dom
    /\ renders' = renders + 1
    /\ UNCHANGED <<pc, data, static, scrollAt, caught, outcome, tm, menu>>

\* renderPortfolio() is called before a document is loaded, or after the
\* load has failed.
RenderUnloaded == Unloaded(renderPortfolio(dom, data, scrollAt))

NextUnloaded == FetchSettles \/ JsonRejects \/ ScrollEvent \/ RenderUnloaded

SpecUnloaded == Init /\ [][NextUnloaded]_vars

\* ------------------------------------------------------------------------
\* Vocabulary of the properties
\* ------------------------------------------------------------------------
Sections == data.sections.list

\* The section has a mount point: an element #id with a .container.
Mounted(id) == static.sections[id].section /\ static.sections[id].container

\* The renderer registered for the section's type throws on its payload.
SectionThrows(section) == HasRenderer(section.type) /\ Dispatch(<<>>, section, data).threw

\* The payload has the shape the schema gives for the section's type.
WellFormedSection(section) ==
    CASE section.type = "text" -> section.content # UNDEFINED
      [] section.type = "timeline" ->
            /\ section.items.kind = "array"
            /\ \A k \in 1..Len(section.items.arr) :
                  section.items.arr[k].subtitle.present
                      => section.items.arr[k].subtitle.text # UNDEFINED
      [] section.type = "cards" -> section.items.kind = "array"
      [] section.type = "categories" -> section.items.kind = "object"
      [] section.type = "contact" ->
            \/ section.items.kind = "array"
            \/ section.items.kind = "string" /\ section.items.str = <<"contacts">>
      [] OTHER -> FALSE

WellFormedContact(contact) ==
    contact.label # UNDEFINED /\ contact.url # UNDEFINED /\ contact.icon # UNDEFINED

\* The document matches the schema: typed sections with unique ids, and
\* contacts that carry label, url and icon.
WellFormed ==
    /\ ~data.isNull
    /\ data.sections.present
    /\ UniqueIds(Sections)
    /\ \A i \in 1..Len(Sections) : WellFormedSection(Sections[i])
    /\ \A i \in 1..Len(data.contacts.list) : WellFormedContact(data.contacts.list[i])
    /\ \A i \in 1..Len(Sections) :
          (Sections[i].type = "contact" /\ Sections[i].items.kind = "array")
              => \A k \in 1..Len(Sections[i].items.arr) : WellFormedContact(Sections[i].items.arr[k])

\* The ids of the sections that have a mount point, in document order.
MountedIds == [i \in 1..Len(SelectSeq(Sections, LAMBDA x : Mounted(x.id))) |->
                  SelectSeq(Sections, LAMBDA x : Mounted(x.id))[i].id]

\* href and label of the entries of a nav menu.
LinkContent(links) == [i \in 1..Len(links) |-> <<links[i].href, links[i].text>>]

RECURSIVE CountH2(_)
CountH2(kids) ==
    IF Len(kids) = 0 THEN 0
    ELSE (IF kids[1].tag = "h2" THEN 1 ELSE 0) + CountH2(kids[1].kids) + CountH2(Tail(kids))

RECURSIVE AllCreated(_)
AllCreated(kids) ==
    \A i \in 1..Len(kids) : kids[i].origin = "created" /\ AllCreated(kids[i].kids)

Loaded == pc = "done" /\ ~data.isNull

\* The document says config.navigation.enabled: true.
EnabledInDocument ==
    data.config.present /\ data.config.navigation.present /\ data.config.navigation.enabled

\* ------------------------------------------------------------------------
\* Properties
\* ------------------------------------------------------------------------

\* C1: if loading the Data Document fails (fetch rejected, status not ok,
\* body not JSON), init catches the failure, data stays null and the
\* document is exactly the static page.
C1_LoadFailureLeavesPageUntouched ==
    (pc = "done" /\ outcome # "ok") =>
        /\ caught
        /\ data.isNull
        /\ renders = 0
        /\ dom = static

C1_Witness == pc = "done" /\ outcome = "notok" /\ dom.navMenu.present /\ caught

\* C2: no failure is fatal to the rest of the pass: whatever piece fails,
\* every section with a mount point is still processed, the navigation is
\* still generated and the theme is still applied.
C2_FailureNotFatalToThePass ==
    Loaded =>
        /\ \A i \in 1..Len(Sections) :
              Mounted(Sections[i].id) => \E k \in 1..Len(dom.log) : dom.log[k] = Sections[i].id
        /\ dom.accentColor = data.theme.colors.primary
        /\ (EnabledInDocument /\ dom.navMenu.present)
              => LinkContent(dom.navMenu.links) =
                    [i \in 1..Len(Sections) |-> << <<"#", Sections[i].id>>, Sections[i].title >>]

C5_NavigationMatchesSections ==
    (Loaded /\ ~caught /\ EnabledInDocument /\ data.sections.present /\ dom.navMenu.present)
        => LinkContent(dom.navMenu.links) =
              [i \in 1..Len(Sections) |-> << <<"#", Sections[i].id>>, Sections[i].title >>]

C5_Witness ==
    /\ Loaded /\ ~caught /\ EnabledInDocument
    /\ Len(static.navMenu.links) > 0
    /\ Len(Sections) = 2
    /\ LinkContent(dom.navMenu.links) # LinkContent(static.navMenu.links)

\* C6: when config.navigation.enabled is falsy (config or config.navigation
\* absent included), generateNavigation changes nothing: the nav menu keeps
\* the entries of the static page.
C6_DisabledNavigationUntouched ==
    (Loaded /\ ~EnabledInDocument) =>
        /\ generateNavigation(dom, data) = dom
        /\ LinkContent(dom.navMenu.links) = LinkContent(static.navMenu.links)

C6_Witness ==
    /\ Loaded /\ ~caught /\ ~data.config.present
    /\ Len(Sections) > 0
    /\ Len(dom.navMenu.links) > 0

\* C7: every nav link in the nav menu when init has run through carries the
\* click handlers installed by initializeNavigation.
C7_NavLinksCarryHandlers ==
    (Loaded /\ ~caught) =>
        \A i \in 1..Len(dom.navMenu.links) : Len(dom.navMenu.links[i].handlers) > 0

\* C8: running renderPortfolio again on an unchanged document and skeleton
\* leaves every section container, both contact mount points and the nav
\* menu's entries as they were.
C8_RenderIsIdempotent ==
    [][RenderAgain =>
          /\ dom'.sections = dom.sections
          /\ dom'.headerContacts = dom.headerContacts
          /\ dom'.contactLinks = dom.contactLinks
          /\ LinkContent(dom'.navMenu.links) = LinkContent(dom.navMenu.links)]_vars

C8_Witness ==
    /\ Loaded /\ renders = 2
    /\ Len(dom.log) = 2
    /\ Len(dom.headerContacts.kids) > 0 /\ dom.headerContacts # static.headerContacts
    /\ Len(dom.navMenu.links) > 0

\* C9: after a section with a mount point is rendered its container has
\* exactly one heading, as its first child, with the section's title as text;
\* it is the skeleton's heading if the container had one and a new element
\* otherwise, and nothing else of the container's prior content is left.
C9_HeadingKeptContentCleared ==
    Loaded =>
        \A i \in 1..Len(Sections) :
            (\E k \in 1..Len(dom.log) : dom.log[k] = Sections[i].id) =>
                LET kids == dom.sections[Sections[i].id].kids
                    before == static.sections[Sections[i].id].kids
                IN  /\ Len(kids) > 0
                    /\ kids[1].tag = "h2"
                    /\ kids[1].text = Sections[i].title
                    /\ CountH2(kids) = 1
                    /\ kids[1].origin = IF CountH2(before) > 0 THEN "skeleton" ELSE "created"
                    /\ AllCreated(Tail(kids))

C9_Witness ==
    /\ Loaded /\ renders = 2
    /\ \E i, j \in 1..Len(Sections) :
          /\ Mounted(Sections[i].id) /\ Mounted(Sections[j].id)
          /\ Len(dom.log) = 2
          /\ Len(dom.sections[Sections[i].id].kids) > 1
          /\ dom.sections[Sections[i].id].kids[1].origin = "skeleton"
          /\ Len(static.sections[Sections[i].id].kids) > 2
          /\ dom.sections[Sections[j].id].kids[1].origin = "created"

\* C10: whenever a document with a contacts list is rendered, both contact
\* mount points hold one link per contact, in contacts order, whatever the
\* other fields of the document are.
C10_ContactsRenderedInBothMounts ==
    (/\ Loaded
     /\ data.contacts.present
     /\ Len(data.contacts.list) > 0
     /\ ~AnyContactThrows(data.contacts.list)) =>
        /\ dom.headerContacts.present =>
              dom.headerContacts.kids =
                 [i \in 1..Len(data.contacts.list) |-> HeaderContactLink(data.contacts.list[i])]
        /\ dom.contactLinks.present =>
              dom.contactLinks.kids =
                 [i \in 1..Len(data.contacts.list) |-> ContactLinksP(data.contacts.list[i])]

\* C11: renderHeader overrides and never clears: the name, title and summary
\* elements each hold the personal field's value if the field is present and
\* non-empty, and their static content otherwise (personal absent, field
\* absent, field empty).
C11_HeaderOverridesNeverClears ==
    Loaded =>
        LET Held(el, before, field) ==
                el = IF before.present /\ data.personal.present /\ Truthy(field)
                     THEN [before EXCEPT !.text = field]
                     ELSE before
        IN  /\ Held(dom.name, static.name, data.personal.name)
            /\ Held(dom.jobTitle, static.jobTitle, data.personal.title)
            /\ Held(dom.summary, static.summary, data.personal.summary)

C11_Witness ==
    /\ Loaded /\ data.personal.present
    /\ data.personal.name = EMPTY /\ dom.name = static.name
    /\ data.personal.title = UNDEFINED /\ dom.jobTitle = static.jobTitle
    /\ Truthy(data.personal.summary) /\ dom.summary.text = data.personal.summary
    /\ dom.summary # static.summary

\* The last two operations were toggleTheme calls; Before2 is the state the
\* first of them started in.
TwoToggles ==
    /\ Len(tm.trace) >= 2
    /\ tm.trace[Len(tm.trace)].op = "toggle"
    /\ tm.trace[Len(tm.trace) - 1].op = "toggle"

Before2 == tm.trace[Len(tm.trace) - 1]

\* C12 as stated: for every initial state of the 'theme' key, after two
\* consecutive toggleTheme calls the persisted value equals the value that
\* was persisted before the two toggles.
C12_TwoTogglesRestorePersisted ==
    TwoToggles => tm.stored = Before2.stored

\* C12 amended: after two consecutive toggleTheme calls a persisted 'light'
\* or 'dark' is persisted again; with writable storage any other content of
\* the key (absent included) is replaced by the theme that was current before
\* the two toggles if that was 'light' or 'dark', and by 'dark' otherwise;
\* when storage cannot be written the key is unchanged.
C12_TwoTogglesRestoreTheme ==
    TwoToggles =>
        /\ Before2.stored \in {"light", "dark"} => tm.stored = Before2.stored
        /\ tm.storage = "ok" =>
              tm.stored = IF Before2.currentTheme \in {"light", "dark"}
                          THEN Before2.currentTheme ELSE "dark"
        /\ tm.storage # "ok" => tm.stored = Before2.stored
        /\ Before2.currentTheme \in {"light", "dark"} =>
              tm.currentTheme = Before2.currentTheme

C12_Witness ==
    /\ TwoToggles
    /\ tm.storage = "ok" /\ Before2.stored = "dark" /\ tm.stored = "dark"
    /\ Len(tm.writes) >= 3 /\ tm.writes[Len(tm.writes) - 1] = "light"

\* C13: an automatically selected theme is never persisted before an
\* explicit toggle: if the constructor took the theme from the system
\* preference or the 'light' fallback, then until toggleTheme is first called
\* nothing has written the 'theme' key, neither initialisation nor a system
\* colour-scheme change.
C13_AutoThemeNotPersistedBeforeToggle ==
    (tm.constructed /\ tm.auto /\ Ran("toggle") = 0) =>
        /\ tm.writes = <<>>
        /\ tm.stored = tm.trace[1].stored

\* storage or the media-query API is inaccessible: its calls throw or are missing
StorageInaccessible == tm.storage \in {"readonly", "throws", "missing"}
MediaInaccessible == tm.media \in {"throws", "missing"}

HandlerRuns == ScrollEvent \/ AnimationFrame \/ NavClick \/ ClickTimeout

\* C15: the renderer mutates nothing before the Data Document has arrived
\* (while init waits for fetch or for the body, the document is the static
\* page and no listener is registered), and whenever the event loop may run a
\* handler the pass has either not begun or is over; no scroll or click
\* handler runs while a statement of the pass is still to run.
C15_PassIsNotInterleaved ==
    /\ [](pc \in {"fetching", "parsing"} => dom = static /\ data.isNull)
    /\ [](Suspended(pc) => (pc = "done" \/ dom = static))
    /\ [][HandlerRuns => (~InPass(pc) /\ pc' = pc)]_vars

C15_Witness ==
    /\ pc = "done" /\ ~caught
    /\ scrollAt = "a"
    /\ Len(dom.scrollListeners) = 1
    /\ dom.closures[1].ticking
    /\ dom.closures[1].lastClickedNavId = "a"
    /\ Len(dom.log) = 2
    /\ dom.accentColor = data.theme.colors.primary

\* The value a style target holds after applyTheme: the field's if the field
\* is present (its parent object too) and non-empty, the prior value otherwise.
Applied(parent, field, prior) == IF parent.present /\ Truthy(field) THEN field ELSE prior

\* C16: applyTheme writes colors.primary to --accent-color, colors.primaryDark
\* to --dark-accent-color, fonts.primary to the body's font-family and
\* layout.containerWidth to --container-width, each only if the field is
\* present; the target of an absent field keeps its prior value, and no field
\* reaches a target other than its own.
C16_ThemeFieldsMapOneToOne ==
    (Loaded /\ ~caught) =>
        LET t == data.theme
        IN  IF ~t.present
            THEN /\ dom.accentColor = static.accentColor
                 /\ dom.darkAccentColor = static.darkAccentColor
                 /\ dom.fontFamily = static.fontFamily
                 /\ dom.containerWidth = static.containerWidth
            ELSE /\ dom.accentColor = Applied(t.colors, t.colors.primary, static.accentColor)
                 /\ dom.darkAccentColor =
                       Applied(t.colors, t.colors.primaryDark, static.darkAccentColor)
                 /\ dom.fontFamily = Applied(t.fonts, t.fonts.primary, static.fontFamily)
                 /\ dom.containerWidth =
                       Applied(t.layout, t.layout.containerWidth, static.containerWidth)

C16_Witness ==
    /\ Loaded /\ ~caught /\ data.theme.present
    /\ dom.accentColor = <<"#0a0">>
    /\ ~Truthy(data.theme.colors.primaryDark) /\ dom.darkAccentColor = static.darkAccentColor
    /\ dom.fontFamily = <<"Inter">>
    /\ ~data.theme.layout.present /\ dom.containerWidth = <<"default">>

\* The one section of the document has the type `type`, and it was rendered
\* into its container.
RenderedAs(type) ==
    /\ Loaded /\ ~caught
    /\ Len(Sections) = 1
    /\ Sections[1].type = type
    /\ dom.log = <<Sections[1].id>>

\* What the renderer appended after the heading.
Appended == Tail(dom.sections[Sections[1].id].kids)

\* C17: renderCategoriesSection emits one line per mapping entry, in the
\* mapping's insertion order whatever the category names are, each line
\* "<strong>name:</strong> " followed by the items in their order joined
\* by ", ".
C17_CategoriesInInsertionOrder ==
    (RenderedAs("categories") /\ Sections[1].items.kind = "object") =>
        Appended = [k \in 1..Len(Sections[1].items.arr) |->
                        CategoryLine(Sections[1].items.arr[k])]

\* The <p> holds an icon and a link made from the contact's fields.
LinksTo(p, contact) ==
    /\ p.tag = "p" /\ Len(p.kids) = 2
    /\ p.kids[1].tag = "i" /\ p.kids[1].className = contact.icon
    /\ p.kids[2].tag = "a"
    /\ p.kids[2].href = contact.url
    /\ p.kids[2].text = contact.label

\* The contact list a contact section stands for.
ContactsOf(section) ==
    IF section.items = ItemsString(<<"contacts">>)
    THEN data.contacts.list
    ELSE section.items.arr

\* C18: a contact section whose items is the sentinel "contacts" renders
\* exactly one link per entry of the document's top-level contacts, in their
\* order, from that entry's url, label and icon; an inline list is used as
\* the contact list itself.
C18_ContactSentinelReusesContacts ==
    RenderedAs("contact") =>
        /\ Len(Appended) = 1
        /\ Appended[1].tag = "div" /\ Appended[1].className = <<"contact-links">>
        /\ Len(Appended[1].kids) = Len(ContactsOf(Sections[1]))
        /\ \A k \in 1..Len(ContactsOf(Sections[1])) :
              LinksTo(Appended[1].kids[k], ContactsOf(Sections[1])[k])

C18_Witness ==
    /\ RenderedAs("contact")
    /\ Sections[1].items = ItemsString(<<"contacts">>)
    /\ data.contacts.list = <<GitHub, Mail>>
    /\ Len(Appended[1].kids) = 2
    /\ Appended[1].kids[1].kids[2].href = GitHub.url
    /\ Appended[1].kids[2].kids[2].text = <<"Mail">>

\* The children of `node` with the tag `tag`.
Children(node, tag) == SelectSeq(node.kids, LAMBDA n : n.tag = tag)

\* How many pieces a condition puts out.
Pieces(cond) == IF cond THEN 1 ELSE 0

\* The <li> of `detail`: a link in parentheses only with detail.link, and a
\* line break and "Tech Stack: .." as its last children only with tags.
DetailShown(li, detail) ==
    /\ li.text = detail.text
    /\ Len(Children(li, "a")) = Pieces(detail.link.present)
    /\ Len(Children(li, "#text")) = 2 * Pieces(detail.link.present)
    /\ Len(Children(li, "em")) = Pieces(Len(detail.tags) > 0)
    /\ Len(Children(li, "br")) = Pieces(Len(detail.tags) > 0)
    /\ Len(detail.tags) > 0 =>
          /\ li.kids[Len(li.kids)].tag = "em"
          /\ li.kids[Len(li.kids)].text = <<"Tech Stack: ">> \o Join(detail.tags, <<", ">>)

\* The <div class="job"> of `item`: title, then subheading, date line and
\* list, each only with its field.
ItemShown(div, item) ==
    /\ div.className = <<"job">>
    /\ Len(div.kids) = 1 + Pieces(item.subtitle.present) + Pieces(Truthy(item.period))
                          + Pieces(Len(item.details) > 0)
    /\ div.kids[1].tag = "h3" /\ div.kids[1].text = item.title
    /\ Len(Children(div, "h4")) = Pieces(item.subtitle.present)
    /\ Children(div, "p") =
          IF Truthy(item.period)
          THEN <<Node("p", <<"date">>, EMPTY, EMPTY, item.period, <<>>)>> ELSE <<>>
    /\ Len(Children(div, "ul")) = Pieces(Len(item.details) > 0)
    /\ Len(item.details) > 0 =>
          LET ul == Children(div, "ul")[1]
          IN  /\ Len(ul.kids) = Len(item.details)
              /\ \A j \in 1..Len(item.details) : DetailShown(ul.kids[j], item.details[j])

\* The <div class="project"> of `card`: title, content, and the tag line
\* only with tags.
CardShown(div, card) ==
    /\ div.className = <<"project">>
    /\ Len(div.kids) = 2 + Pieces(Len(card.tags) > 0)
    /\ div.kids[1].tag = "h3" /\ div.kids[1].text = card.title
    /\ div.kids[2].tag = "p" /\ div.kids[2].text = Attr(card.content)
    /\ Len(card.tags) > 0 =>
          /\ div.kids[3].tag = "p"
          /\ div.kids[3].kids =
                <<Node("em", EMPTY, EMPTY, EMPTY,
                       <<"Tech Stack: ">> \o Join(card.tags, <<", ">>), <<>>)>>

\* C19: in timeline and cards rendering a missing optional field (subtitle,
\* period, details, a detail's link or tags, a card's tags) never raises an
\* error and suppresses only its own piece of output: every item is rendered
\* with exactly the pieces whose fields it has; a detail with tags and no
\* link ends in "Tech Stack: Go, SQL" and has no parenthetical.
C19_MissingOptionalFieldsSuppressed ==
    (Loaded /\ Len(Sections) = 1 /\ Sections[1].type \in {"timeline", "cards"}
            /\ Sections[1].items.kind = "array") =>
        /\ ~caught
        /\ Mounted(Sections[1].id) =>
              /\ dom.log = <<Sections[1].id>>
              /\ Len(Appended) = Len(Sections[1].items.arr)
              /\ \A k \in 1..Len(Appended) :
                    IF Sections[1].type = "timeline"
                    THEN ItemShown(Appended[k], Sections[1].items.arr[k])
                    ELSE CardShown(Appended[k], Sections[1].items.arr[k])

C19_Witness ==
    /\ RenderedAs("timeline")
    /\ Len(Appended) = 1
    /\ ~Sections[1].items.arr[1].subtitle.present
    /\ Sections[1].items.arr[1].period = UNDEFINED
    /\ Sections[1].items.arr[1].details =
          <<[text |-> <<"Built X">>, link |-> NoLink, tags |-> << <<"Go">>, <<"SQL">> >>]>>
    /\ Len(Appended[1].kids) = 2
    /\ Appended[1].kids[2].kids[1].kids[2].text = <<"Tech Stack: ", "Go", ", ", "SQL">>
    /\ Len(Appended[1].kids[2].kids[1].kids) = 2

\* An anchor to url around text, as the subtitle's HTML spells it.
AnchorTo(url, text) ==
    <<"<a href=\"">> \o url \o <<"\" target=\"_blank\">">> \o text \o <<"</a>">>

\* s with the first occurrence of pat, if any, replaced by exactly rep.
FirstReplaced(s, pat, rep) ==
    IF IndexOf(s, pat) = 0 THEN s
    ELSE SubSeq(s, 1, IndexOf(s, pat) - 1) \o rep
         \o SubSeq(s, IndexOf(s, pat) + Len(pat), Len(s))

RECURSIVE LinkedInOrder(_, _)
\* The links applied one after the other, each to the result of the one before.
LinkedInOrder(s, links) ==
    IF Len(links) = 0 THEN s
    ELSE LinkedInOrder(FirstReplaced(s, links[1].text, AnchorTo(links[1].url, links[1].text)),
                       Tail(links))

Anchors(s) == Len(SelectSeq(s, LAMBDA tok : tok = "</a>"))

\* The subtitle of the one timeline item has links and its <h4> was rendered.
LinkedSubtitleRendered ==
    /\ RenderedAs("timeline")
    /\ Len(Sections[1].items.arr) = 1
    /\ Sections[1].items.arr[1].subtitle.present
    /\ Len(Sections[1].items.arr[1].subtitle.links) > 0

Subtitle == Sections[1].items.arr[1].subtitle

\* C20: renderLinkedText takes the links in array order and, for each,
\* replaces the first literal occurrence of its text in the string as the
\* links before it left it by an anchor to its url around that text; a link
\* whose text does not occur changes nothing, so there is at most one new
\* anchor per link.
C20_LinksReplaceFirstOccurrence ==
    LinkedSubtitleRendered =>
        /\ Children(Appended[1], "h4")[1].text = LinkedInOrder(Subtitle.text, Subtitle.links)
        /\ Anchors(Children(Appended[1], "h4")[1].text) <= Len(Subtitle.links)

\* C21: renderPortfolio is a no-op when no document was loaded: with data
\* null it changes neither the DOM (the listeners registered on it included)
\* nor does it throw.
C21_UnloadedRenderIsNoOp ==
    [][RenderUnloaded =>
        /\ dom' = dom
        /\ ~renderPortfolio(dom, data, scrollAt).threw]_vars

\* renderPortfolio has been called after a failed load.
C21_Witness == data.isNull /\ renders > 0 /\ pc = "done" /\ caught

\* The menu is closed.
Closed(m) == ~m.isOpen /\ ~m.navbar /\ ~m.navToggle

\* C22: the mobile menu auto-closes: once the page is loaded, whatever
\* clicks on the menu button came before, a click on a nav link and a click
\* outside .navbar and .nav-toggle leave the menu closed, and a click on the
\* menu button is not taken for an outside click: it flips the menu.
C22_MenuAutoCloses ==
    [][(pc = "done" /\ ~caught) =>
          /\ (NavClick \/ OutsideClick) => Closed(menu)'
          /\ ToggleClick => /\ menu'.navbar = ~menu.navbar
                            /\ menu'.navToggle = ~menu.navToggle]_vars

\* localStorage holds a theme preference the page can read.
PreferenceStored(t) == t.storage \in {"ok", "readonly"} /\ t.stored \notin {NULL, ""}

\* C23: a change of the system colour scheme never writes the preference;
\* it switches the current theme, to 'dark' if the query matches and to
\* 'light' otherwise, while no theme preference is stored, and once a
\* preference is stored (the user has toggled) it alters neither the current
\* theme nor the stored value.
C23_SystemChangeYieldsToPreference ==
    [][SystemThemeChange =>
          /\ tm'.stored = tm.stored /\ tm'.writes = tm.writes
          /\ PreferenceStored(tm) =>
                /\ tm'.currentTheme = tm.currentTheme
                /\ tm'.dataTheme = tm.dataTheme
          /\ ~PreferenceStored(tm) =>
                /\ tm'.currentTheme = (IF tm'.matches THEN "dark" ELSE "light")
                /\ tm'.dataTheme = tm'.currentTheme]_vars

\* A system change switched the theme, then the user toggled and the
\* preference was stored, and a later system change left the theme alone.
C23_Witness ==
    \E i, j, k \in 1..Len(tm.trace) :
        /\ i < j /\ j < k
        /\ tm.trace[i].op = "system" /\ tm.trace[i].stored = NULL
        /\ tm.trace[i + 1].currentTheme # tm.trace[i].currentTheme
        /\ tm.trace[j].op = "toggle"
        /\ tm.trace[k].op = "system" /\ tm.trace[k].stored \in {"light", "dark"}
        /\ k = Len(tm.trace)
        /\ tm.currentTheme = tm.trace[k].currentTheme
        /\ tm.stored = tm.trace[k].stored

\* The current theme, the data-theme attribute and the toggle icon agree.
ThemeAgrees(t) ==
    /\ t.dataTheme = t.currentTheme
    /\ t.toggle = "icon" => (t.icon = "fas fa-sun" <=> t.currentTheme = "dark")

\* C26 as stated: once the ThemeManager is constructed, after every
\* toggleTheme and handleSystemThemeChange call, the current theme, data-theme
\* and the icon agree, and a stored theme preference equals the current theme.
C26_StoredPreferenceIsCurrentTheme ==
    tm.constructed =>
        /\ ThemeAgrees(tm)
        /\ PreferenceStored(tm) => tm.stored = tm.currentTheme

\* C26 amended: the current theme, data-theme and the icon agree; a stored
\* theme preference equals the current theme as long as localStorage accepts
\* writes, and when setItem throws the key keeps the value it had when the
\* page was opened.
C26_StoredPreferenceIsCurrentThemeIfWritable ==
    tm.constructed =>
        /\ ThemeAgrees(tm)
        /\ (PreferenceStored(tm) /\ tm.storage = "ok") => tm.stored = tm.currentTheme
        /\ tm.storage = "readonly" => tm.stored = tm.trace[1].stored

\* The user has toggled to the dark theme, which is stored and shown with
\* the sun icon, and a system change came after it.
C26_Witness ==
    /\ tm.constructed /\ tm.storage = "ok"
    /\ Ran("toggle") > 0 /\ Ran("system") > 0
    /\ tm.trace[Len(tm.trace)].op = "system"
    /\ tm.stored = "dark" /\ tm.currentTheme = "dark" /\ tm.icon = "fas fa-sun"

\* C27: in MobileNav, after any sequence of clicks on the menu button, on
\* nav links and elsewhere on the page, isOpen is true exactly when .navbar
\* and .nav-toggle carry 'active' and body overflow is 'hidden'; when it is
\* false neither carries 'active' and the overflow is reset.
C27_IsOpenMirrorsClasses ==
    menu.constructed =>
        /\ menu.isOpen <=> (menu.navbar /\ menu.navToggle /\ menu.overflow = "hidden")
        /\ ~menu.isOpen => (~menu.navbar /\ ~menu.navToggle /\ menu.overflow = "")

\* The menu is open after it has been opened and closed before.
C27_Witness ==
    /\ menu.constructed /\ menu.isOpen /\ menu.clicks >= 3
    /\ menu.navbar /\ menu.navToggle /\ menu.overflow = "hidden"

\* C24: after init has finished on a page opened with a URL hash that names
\* a section with a nav link, that section's nav link carries 'active'.
C24_InitialHashLinkActive ==
    (/\ pc = "done" /\ ~caught /\ renders = 1
     /\ static.hash # ""
     /\ HasSectionElement(dom, static.hash)
     /\ NavLinkFor(dom, static.hash) # 0)
    => dom.navMenu.links[NavLinkFor(dom, static.hash)].active

\* The click lock of a closure is set.
Locked(c) == c.lastClickedNavId # ""

\* The lock is held for the 3 s after the most recent click and no longer,
\* with at most one timer pending: the one that is to clear it.
LockTimed(c) ==
    /\ Cardinality(c.timers) <= 1
    /\ c.sinceClick < ClickLockSeconds => Locked(c)
    /\ Locked(c) =>
          c.timers = {[id |-> c.clickTimeout, left |-> ClickLockSeconds - c.sinceClick]}

\* C25: after a nav-link click, scroll-driven highlighting changes neither
\* the active link nor the URL hash while the click lock is set; the lock is
\* cleared 3 seconds after the most recent click, at most one clearing timer
\* is pending at any time, and the timer of an earlier click never releases
\* the lock of a later one.
C25_ClickLockHeldThreeSeconds ==
    /\ [](\A c \in 1..Len(dom.closures) : LockTimed(dom.closures[c]))
    /\ [][(AnimationFrame /\ \A c \in 1..Len(dom.closures) : Locked(dom.closures[c]))
             => /\ dom'.navMenu = dom.navMenu
                /\ dom'.hash = dom.hash]_vars

\* Two clicks were made, the second 2 s ago; the window has since been
\* scrolled into another section that has a nav link, no frame is pending,
\* and the clicked link is still the active one.
C25_Witness ==
    /\ pc = "done" /\ Len(dom.closures) = 1
    /\ dom.closures[1].created = 2
    /\ dom.closures[1].lastClickedNavId = "a"
    /\ dom.closures[1].sinceClick = 2
    /\ dom.closures[1].frames = 0
    /\ scrollAt = "b" /\ HasSectionElement(dom, "b") /\ NavLinkFor(dom, "b") # 0
    /\ dom.navMenu.links[NavLinkFor(dom, "a")].active
    /\ dom.hash = "a"

\* C28: the scroll handler is throttled to one update per animation frame:
\* at most one frame callback of a closure is pending however many scroll
\* events arrive, and every scroll event is followed by a run of
\* updateActiveNavLink: the frame that is pending after it runs and resets
\* the flag.
C28_ScrollThrottledPerFrame ==
    /\ [](\A c \in 1..Len(dom.closures) :
             /\ dom.closures[c].frames <= 1
             /\ dom.closures[c].ticking <=> dom.closures[c].frames = 1
             /\ dom.closures[c].scrolls > 0 => dom.closures[c].frames = 1)
    /\ (\E c \in 1..Len(dom.closures) : dom.closures[c].scrolls > 0)
          ~> (\A c \in 1..Len(dom.closures) :
                 dom.closures[c].scrolls = 0 /\ ~dom.closures[c].ticking)

\* A second scroll event has arrived while the frame requested by the first
\* is still pending.
C28_Witness ==
    /\ pc = "done" /\ Len(dom.closures) = 1
    /\ dom.closures[1].scrolls = 2
    /\ dom.closures[1].frames = 1
    /\ dom.closures[1].ticking

\* The nav links that carry 'active'.
ActiveLinks == {i \in 1..Len(dom.navMenu.links) : dom.navMenu.links[i].active}

\* C29: after any sequence of nav-link clicks and scroll updates, at most
\* one nav link of the nav menu carries 'active'.
C29_AtMostOneActiveLink == Cardinality(ActiveLinks) <= 1

\* A link was clicked, its lock has expired, and a scroll update has since
\* moved 'active' to the link of another section.
C29_Witness ==
    /\ pc = "done" /\ Len(dom.closures) = 1
    /\ dom.closures[1].created > 0 /\ ~Locked(dom.closures[1])
    /\ dom.closures[1].frames = 0
    /\ scrollAt = "b" /\ dom.hash = "b"
    /\ ActiveLinks = {NavLinkFor(dom, "b")}

\* C30: for a section with a mount point and a type that has no renderer,
\* the container's static content is not kept: once renderSections has
\* processed the section its container holds the heading, with the section's
\* title as text, and nothing else.
C30_UnknownTypeLeavesHeadingOnly ==
    Loaded =>
        \A i \in 1..Len(Sections) :
            (/\ ~HasRenderer(Sections[i].type)
             /\ \E k \in 1..Len(dom.log) : dom.log[k] = Sections[i].id)
            => LET kids == dom.sections[Sections[i].id].kids
               IN  /\ Len(kids) = 1
                   /\ kids[1].tag = "h2"
                   /\ kids[1].text = Sections[i].title

\* A section of unknown type was processed on a page whose container held
\* more than a heading.
C30_Witness ==
    /\ Loaded
    /\ \E i \in 1..Len(Sections) :
          /\ ~HasRenderer(Sections[i].type)
          /\ Mounted(Sections[i].id)
          /\ Len(static.sections[Sections[i].id].kids) > 1
          /\ Len(dom.sections[Sections[i].id].kids) = 1
          /\ dom.sections[Sections[i].id].kids[1].text = Sections[i].title

====
